---- MODULE Spec2Model ----
(***************************************************************************)
(* Model of calendarStatsService (src/unnamed/part_001): the monthly       *)
(* nutrition statistics aggregator of the Calo server.                     *)
(*                                                                         *)
(* Conventions.                                                            *)
(*  - A JavaScript Date is a record [k, day, ms]: k = "date" for a valid   *)
(*    instant (day = days since 1970-01-01 UTC, ms = milliseconds within   *)
(*    that UTC day), k = "null" for null/undefined, k = "invalid" for an   *)
(*    Invalid Date or an unparseable value.                                *)
(*  - A "YYYY-MM-DD" string is the triple <<y, m, d>>.                     *)
(*  - A nullable number is <<>> (null, undefined, NaN) or <<n>>.           *)
(*  - Row values are integers; quality_score and the two one-decimal       *)
(*    averages are kept in tenths (87 stands for 8.7). Ratios are computed *)
(*    exactly: for integer row values the 90% comparisons and the integer  *)
(*    roundings agree with the IEEE doubles of the source; a quality score *)
(*    lying exactly on a rounding tie may differ from the double by 0.1.   *)
(*  - A ratio the source keeps unrounded (a week's averageProgress, the    *)
(*    previous month's monthlyProgress, comparison.progressDiff) is the    *)
(*    fraction [num, den] in lowest terms.                                 *)
(*  - A message built from a template is the record [text, n] of the       *)
(*    template and its number.                                             *)
(*  - The tables hold the rows of the one user of the call; the user_id    *)
(*    filter of the queries is left out.                                   *)
(***************************************************************************)
EXTENDS Integers, Sequences, FiniteSets, TLC

VARIABLES
    pc,         \* position of the running call
    req,        \* [year, month] of the call, each a nullable number (<<>>: NaN)
    db,         \* the tables the reads query
    clock,      \* the server's clock: [now (a Date), tz (offset in ms)]
    status,     \* per read of the fan-out: "idle", "pending", "ok", "failed"
    slots,      \* the row collections bound after the await (the 9 slots)
    reordered,  \* TRUE once a read settled before one listed ahead of it
    dailyData,  \* result of processDailyData
    today,      \* the local variable `today' of the last calculateStreakDays
    stats,      \* the returned object
    error,      \* the message of the thrown error, "" when none
    runs,       \* number of calls started so far
    last        \* [year, month, streakDays, today] of the previous return

vars == <<pc, req, db, clock, status, slots, reordered, dailyData, today, stats,
          error, runs, last>>

----------------------------------------------------------------------------
(* Bounds of the model *)

\* Most days the clock advances during one behaviour.
MaxTicks == 1
\* Most calls of one behaviour.
MaxRuns == 2

----------------------------------------------------------------------------
(* JavaScript values *)

DAY_MS == 24 * 60 * 60 * 1000

\* null where a row (an object) is expected
Null == [k |-> "null"]

NullNum == <<>>
Num(n) == <<n>>

\* A plausible slip: Number(v) || 0, the default forgotten.
NumberOrZero(v, dflt) == IF v = <<>> THEN 0 ELSE v[1]

\* A plausible slip: ?? for ||, which keeps 0.
NumberOrNullish(v, dflt) == IF v = <<>> THEN dflt ELSE v[1]

\* Number(v) || dflt: null, undefined, NaN and 0 all fall back.
NumberOr(v, dflt) == IF v = <<>> THEN dflt ELSE IF v[1] = 0 THEN dflt ELSE v[1]

NullDate == [k |-> "null", day |-> 0, ms |-> 0]
InvalidDate == [k |-> "invalid", day |-> 0, ms |-> 0]
MkDate(dayNo, msOfDay) == [k |-> "date", day |-> dayNo, ms |-> msOfDay]

Max2(a, b) == IF a >= b THEN a ELSE b
Min2(a, b) == IF a <= b THEN a ELSE b
Abs(a) == IF a >= 0 THEN a ELSE -a

\* Math.round(n / d) for d > 0: halves go up.
RoundDiv(n, d) == (2 * n + d) \div (2 * d)

RECURSIVE SumSeq(_)
SumSeq(s) == IF s = <<>> THEN 0 ELSE s[1] + SumSeq(Tail(s))

RECURSIVE GCD(_, _)
GCD(a, b) == IF b = 0 THEN a ELSE GCD(b, a % b)
LCM(a, b) == (a \div GCD(a, b)) * b

\* The elements of s whose key (keys[i]) equals key, in order.
RECURSIVE PickByKey(_, _, _)
PickByKey(s, keys, key) ==
    IF s = <<>> THEN <<>>
    ELSE IF keys[1] = key
         THEN <<s[1]>> \o PickByKey(Tail(s), Tail(keys), key)
         ELSE PickByKey(Tail(s), Tail(keys), key)

\* String.prototype.toLowerCase on the period strings that occur.
toLowerCase(str) ==
    CASE str = "Breakfast" -> "breakfast"
      [] str = "LUNCH" -> "lunch"
      [] str = "Dinner" -> "dinner"
      [] str = "LATE_NIGHT" -> "late_night"
      [] str = "SNACK" -> "snack"
      [] OTHER -> str

----------------------------------------------------------------------------
(* Dates: ECMAScript MakeDay / DateFromTime on the proleptic Gregorian     *)
(* calendar, as Date.UTC, getUTC* and toISOString compute them.            *)

\* Day number of the civil date (y, m, d), m in 1..12, d any integer.
DaysFromCivil(y, m, d) ==
    LET yy  == IF m <= 2 THEN y - 1 ELSE y
        era == yy \div 400
        yoe == yy - era * 400
        mp  == IF m > 2 THEN m - 3 ELSE m + 9
        doy == (153 * mp + 2) \div 5 + d - 1
        doe == yoe * 365 + yoe \div 4 - yoe \div 100 + doy
    IN  era * 146097 + doe - 719468

\* <<y, m, d>> of a day number.
CivilFromDays(z) ==
    LET zz  == z + 719468
        era == zz \div 146097
        doe == zz - era * 146097
        yoe == (doe - doe \div 1460 + doe \div 36524 - doe \div 146096) \div 365
        doy == doe - (365 * yoe + yoe \div 4 - yoe \div 100)
        mp  == (5 * doy + 2) \div 153
        d   == doy - (153 * mp + 2) \div 5 + 1
        m   == IF mp < 10 THEN mp + 3 ELSE mp - 9
        y   == yoe + era * 400 + (IF m <= 2 THEN 1 ELSE 0)
    IN  <<y, m, d>>

\* new Date(Date.UTC(year, month0, day, h, mi, s, ms)) for finite arguments.
\* Months and days outside their range carry over; years 0..99 mean 19xx.
DateUTC(year, month0, day, msOfDay) ==
    LET y == IF year >= 0 /\ year <= 99 THEN 1900 + year ELSE year
    IN  MkDate(DaysFromCivil(y + month0 \div 12, (month0 % 12) + 1, 1)
                 + day - 1, msOfDay)

getUTCFullYear(date) == CivilFromDays(date.day)[1]
getUTCMonth(date) == CivilFromDays(date.day)[2] - 1
getUTCDate(date) == CivilFromDays(date.day)[3]

\* date.toISOString().split("T")[0]
ISODay(date) == CivilFromDays(date.day)

\* new Date("YYYY-MM-DD"): midnight UTC of that day.
ParseISODay(str) == MkDate(DaysFromCivil(str[1], str[2], str[3]), 0)

\* The local calendar day (as a day number) an instant falls on; setHours(0,0,0,0)
\* moves the instant to that day's local midnight.
LocalDay(date, tz) == date.day + (date.ms + tz) \div DAY_MS

----------------------------------------------------------------------------
(* calculateQualityScore, in tenths *)

\* A plausible slip: the early return for a day without calories left out.
calculateQualityScoreNoZeroCase(totals, goals, waterIntake) ==
      LET cd == IF goals.calories > 0 THEN goals.calories ELSE 1
          cn == IF goals.calories > 0
                THEN 10 * Abs(2 * goals.calories
                              - Min2(2 * totals.calories, 3 * goals.calories))
                ELSE 20
          pd == IF goals.protein > 0 THEN goals.protein ELSE 1
          pn == IF goals.protein > 0
                THEN 3 * Abs(5 * goals.protein
                             - Min2(5 * totals.protein, 6 * goals.protein))
                ELSE 15
          wn == Abs(2000 - Min2(waterIntake, 2000))
          D  == LCM(LCM(cd, pd), 200)
          N  == 100 * D - cn * (D \div cd) - pn * (D \div pd) - wn * (D \div 200)
      IN  Min2(100, RoundDiv(Max2(10 * D, N), D))

\* A plausible slip: caloriesScore capped at 1.0, as waterScore is.
calculateQualityScoreCapOne(totals, goals, waterIntake) ==
    IF totals.calories = 0 THEN 0
    ELSE
      LET cd == IF goals.calories > 0 THEN goals.calories ELSE 1
          cn == IF goals.calories > 0
                THEN 10 * Abs(2 * goals.calories
                              - Min2(2 * totals.calories, 2 * goals.calories))
                ELSE 20
          pd == IF goals.protein > 0 THEN goals.protein ELSE 1
          pn == IF goals.protein > 0
                THEN 3 * Abs(5 * goals.protein
                             - Min2(5 * totals.protein, 6 * goals.protein))
                ELSE 15
          wn == Abs(2000 - Min2(waterIntake, 2000))
          D  == LCM(LCM(cd, pd), 200)
          N  == 100 * D - cn * (D \div cd) - pn * (D \div pd) - wn * (D \div 200)
      IN  Min2(100, RoundDiv(Max2(10 * D, N), D))

\* Exact rational arithmetic over the common denominator D:
\*   caloriesPenalty * 10 = cn / cd, proteinPenalty * 10 = pn / pd,
\*   waterPenalty * 10 = wn / 200, finalScore * 10 = max(10 * D, N) / D.
calculateQualityScore(totals, goals, waterIntake) ==
    IF totals.calories = 0 THEN 0
    ELSE
      LET cd == IF goals.calories > 0 THEN goals.calories ELSE 1
          cn == IF goals.calories > 0
                THEN 10 * Abs(2 * goals.calories
                              - Min2(2 * totals.calories, 3 * goals.calories))
                ELSE 20
          pd == IF goals.protein > 0 THEN goals.protein ELSE 1
          pn == IF goals.protein > 0
                THEN 3 * Abs(5 * goals.protein
                             - Min2(5 * totals.protein, 6 * goals.protein))
                ELSE 15
          wn == Abs(2000 - Min2(waterIntake, 2000))
          D  == LCM(LCM(cd, pd), 200)
          N  == 100 * D - cn * (D \div cd) - pn * (D \div pd) - wn * (D \div 200)
      IN  Min2(100, RoundDiv(Max2(10 * D, N), D))

----------------------------------------------------------------------------
(* processDailyData *)

defaultGoals == [calories |-> 2000, protein |-> 150, carbs |-> 250, fat |-> 67,
                 water |-> 2000]

mainMealPeriods == {"breakfast", "lunch", "dinner", "late_night"}

\* A plausible slip: no test for a missing value, and new Date(null) is the
\* epoch.
safeParseDateOfNull(dateValue) ==
    IF dateValue.k = "null" THEN ISODay(MkDate(0, 0))
    ELSE IF dateValue.k = "invalid" THEN <<>>
    ELSE ISODay(dateValue)

\* The "YYYY-MM-DD" key of a row's date, <<>> for a row that is dropped.
safeParseDate(dateValue) ==
    IF dateValue.k = "null" THEN <<>>
    ELSE IF dateValue.k = "invalid" THEN <<>>
    ELSE ISODay(dateValue)

KeysOf(rows, field) ==
    [i \in 1..Len(rows) |-> safeParseDate(rows[i][field])]

\* A plausible slip: the first row of the day kept instead of the last.
FirstOf(s) == IF s = <<>> THEN <<>> ELSE <<s[1]>>

\* goalsByDate[dateStr] = goal in a forEach: the last row of the day wins.
LastOf(s) == IF s = <<>> THEN <<>> ELSE <<s[Len(s)]>>

EventOf(event, now) ==
    [id |-> event.event_id, title |-> event.title, type |-> event.type,
     created_at |-> IF event.created_at.k = "invalid" THEN now
                    ELSE IF event.created_at.k = "null" THEN MkDate(0, 0)
                    ELSE event.created_at,
     description |-> event.description]

DayTotals(dayMeals) ==
    [calories |-> SumSeq([i \in 1..Len(dayMeals) |-> NumberOr(dayMeals[i].calories, 0)]),
     protein  |-> SumSeq([i \in 1..Len(dayMeals) |-> NumberOr(dayMeals[i].protein_g, 0)]),
     carbs    |-> SumSeq([i \in 1..Len(dayMeals) |-> NumberOr(dayMeals[i].carbs_g, 0)]),
     fat      |-> SumSeq([i \in 1..Len(dayMeals) |-> NumberOr(dayMeals[i].fats_g, 0)])]

\* A plausible slip: a goal row with any empty field is set aside whole.
DayGoalsWholeRow(dayGoal, dflt) ==
    IF dayGoal # <<>> /\ NumberOr(dayGoal[1].calories, 0) # 0
                      /\ NumberOr(dayGoal[1].protein_g, 0) # 0
                      /\ NumberOr(dayGoal[1].carbs_g, 0) # 0
                      /\ NumberOr(dayGoal[1].fats_g, 0) # 0
    THEN [calories |-> dayGoal[1].calories[1], protein |-> dayGoal[1].protein_g[1],
          carbs |-> dayGoal[1].carbs_g[1], fat |-> dayGoal[1].fats_g[1]]
    ELSE [calories |-> dflt.calories, protein |-> dflt.protein,
          carbs |-> dflt.carbs, fat |-> dflt.fat]

\* A plausible slip: the goal row is used as it is, without the fallback of
\* each field.
DayGoalsOfRow(dayGoal, dflt) ==
    IF dayGoal # <<>>
    THEN [calories |-> NumberOr(dayGoal[1].calories, 0),
          protein  |-> NumberOr(dayGoal[1].protein_g, 0),
          carbs    |-> NumberOr(dayGoal[1].carbs_g, 0),
          fat      |-> NumberOr(dayGoal[1].fats_g, 0)]
    ELSE [calories |-> dflt.calories, protein |-> dflt.protein,
          carbs |-> dflt.carbs, fat |-> dflt.fat]

DayGoals(dayGoal, dflt) ==
    IF dayGoal # <<>>
    THEN [calories |-> NumberOr(dayGoal[1].calories, dflt.calories),
          protein  |-> NumberOr(dayGoal[1].protein_g, dflt.protein),
          carbs    |-> NumberOr(dayGoal[1].carbs_g, dflt.carbs),
          fat      |-> NumberOr(dayGoal[1].fats_g, dflt.fat)]
    ELSE [calories |-> dflt.calories, protein |-> dflt.protein,
          carbs |-> dflt.carbs, fat |-> dflt.fat]

CountMainMeals(dayMeals) ==
    Cardinality({i \in 1..Len(dayMeals) :
                   toLowerCase(dayMeals[i].meal_period) \in mainMealPeriods})

\* A plausible slip: the month length taken from month instead of month + 1.
DaysInMonthOfPrev(year, month0) == getUTCDate(DateUTC(year, month0, 0, 0))

\* new Date(Date.UTC(year, month + 1, 0)).getUTCDate()
DaysInMonthOf(year, month0) == getUTCDate(DateUTC(year, month0 + 1, 0, 0))

processDailyData(meals, dailyGoals, waterIntakes, events, startDate, endDate, dflt, now) ==
    LET mealKeys  == KeysOf(meals, "upload_time")
        goalKeys  == KeysOf(dailyGoals, "date")
        waterKeys == KeysOf(waterIntakes, "date")
        eventKeys == KeysOf(events, "date")
        year  == getUTCFullYear(startDate)
        month == getUTCMonth(startDate)
        daysInMonth == DaysInMonthOf(year, month)
        DayRecord(day) ==
          LET dateStr   == ISODay(DateUTC(year, month, day, 0))
              dayMeals  == PickByKey(meals, mealKeys, dateStr)
              dayGoal   == LastOf(PickByKey(dailyGoals, goalKeys, dateStr))
              dayWater  == LastOf(PickByKey(waterIntakes, waterKeys, dateStr))
              dayEvents == PickByKey(events, eventKeys, dateStr)
              goals     == DayGoals(dayGoal, dflt)
              totals    == DayTotals(dayMeals)
              waterIntake == IF dayWater # <<>>
                             THEN NumberOr(dayWater[1].milliliters_consumed, 0)
                             ELSE 0
          IN  [date |-> dateStr,
               calories_goal |-> goals.calories,
               calories_actual |-> totals.calories,
               protein_goal |-> goals.protein,
               protein_actual |-> totals.protein,
               carbs_goal |-> goals.carbs,
               carbs_actual |-> totals.carbs,
               fat_goal |-> goals.fat,
               fat_actual |-> totals.fat,
               meal_count |-> CountMainMeals(dayMeals),
               quality_score |-> calculateQualityScore(totals, goals, waterIntake),
               water_intake_ml |-> waterIntake,
               events |-> [i \in 1..Len(dayEvents) |-> EventOf(dayEvents[i], now)]]
    IN  [day \in 1..daysInMonth |-> DayRecord(day)]

----------------------------------------------------------------------------
(* calculateStreakDays *)

\* A plausible slip: the progress test forgotten, any day with data counts.
StreakDayOfData(day) == day.calories_actual > 0

\* progress >= 0.9 && day.calories_actual > 0
StreakDay(day) ==
    /\ day.calories_actual > 0
    /\ day.calories_goal > 0
    /\ 10 * day.calories_actual >= 9 * day.calories_goal

\* A plausible slip: < for <=.
NotAfterTodayStrict(day, clk) ==
    LocalDay(ParseISODay(day.date), clk.tz) < LocalDay(clk.now, clk.tz)

\* The filter of calculateStreakDays: both dates are moved to their local
\* midnight before they are compared.
NotAfterToday(day, clk) ==
    LocalDay(ParseISODay(day.date), clk.tz) <= LocalDay(clk.now, clk.tz)

DayTime(day) == DaysFromCivil(day.date[1], day.date[2], day.date[3])

\* x put into the descending sequence s behind every element not before it.
RECURSIVE InsertDesc(_, _)
InsertDesc(x, s) ==
    IF s = <<>> THEN <<x>>
    ELSE IF DayTime(s[1]) >= DayTime(x)
         THEN <<s[1]>> \o InsertDesc(x, Tail(s))
         ELSE <<x>> \o s

\* days.sort((a, b) => b - a): stable, latest first.
RECURSIVE SortDesc(_)
SortDesc(s) ==
    IF s = <<>> THEN <<>>
    ELSE InsertDesc(s[Len(s)], SortDesc(SubSeq(s, 1, Len(s) - 1)))

\* A plausible slip: continue instead of break.
RECURSIVE CountAllStreakDays(_)
CountAllStreakDays(s) ==
    IF s = <<>> THEN 0
    ELSE (IF StreakDay(s[1]) THEN 1 ELSE 0) + CountAllStreakDays(Tail(s))

\* The loop: count the leading records that meet the goal.
RECURSIVE LeadingStreak(_)
LeadingStreak(s) ==
    IF s = <<>> THEN 0
    ELSE IF StreakDay(s[1]) THEN 1 + LeadingStreak(Tail(s)) ELSE 0

sortedDays(days, clk) ==
    LET Keep(day) == NotAfterToday(day, clk)
    IN  SortDesc(SelectSeq(days, Keep))

calculateStreakDays(days, clk) == LeadingStreak(sortedDays(days, clk))

----------------------------------------------------------------------------
(* calculateBasicStats *)

\* A plausible slip: >= for >.
HasDataOrZero(day) == day.calories_actual >= 0

HasData(day) == day.calories_actual > 0

\* A plausible slip: the goal has to be exceeded.
GoalDayStrict(day) == day.calories_actual > day.calories_goal

\* day.calories_actual >= day.calories_goal * 0.9
GoalDay(day) == 10 * day.calories_actual >= 9 * day.calories_goal

\* day.quality_score >= 9
PerfectDay(day) == day.quality_score >= 90

Field(s, f) == [i \in 1..Len(s) |-> s[i][f]]

\* Math.round(mean of field f over s), 0 for an empty s.
RoundedMean(s, f) == IF Len(s) > 0 THEN RoundDiv(SumSeq(Field(s, f)), Len(s)) ELSE 0

\* A plausible slip: totalDays taken from the days with data.
TotalDaysOfData(days) == Len(SelectSeq(days, HasData))

TotalDays(days) == Len(days)

calculateBasicStats(days, dflt, clk) ==
    LET totalDays    == TotalDays(days)
        daysWithData == SelectSeq(days, HasData)
        goalDays     == Len(SelectSeq(days, GoalDay))
        perfectDays  == Len(SelectSeq(days, PerfectDay))
    IN  [monthlyProgress |-> IF totalDays > 0
                             THEN RoundDiv(100 * goalDays, totalDays) ELSE 0,
         streakDays |-> calculateStreakDays(days, clk),
         totalGoalDays |-> goalDays,
         totalDays |-> totalDays,
         perfectDays |-> perfectDays,
         averageCalories |-> RoundedMean(daysWithData, "calories_actual"),
         averageProtein |-> RoundedMean(daysWithData, "protein_actual"),
         averageCarbs |-> RoundedMean(daysWithData, "carbs_actual"),
         averageFat |-> RoundedMean(daysWithData, "fat_actual"),
         averageWater |-> RoundedMean(daysWithData, "water_intake_ml"),
         \* Math.round(mean * 10) / 10, in tenths; quality_score is in tenths
         averageQualityScore |-> RoundedMean(daysWithData, "quality_score"),
         averageMealCount |-> IF Len(daysWithData) > 0
                              THEN RoundDiv(10 * SumSeq(Field(daysWithData, "meal_count")),
                                            Len(daysWithData))
                              ELSE 0]

----------------------------------------------------------------------------
(* calculateNutritionBreakdown *)

\* A plausible slip: Math.min(...values), the 0 left out.
RECURSIVE MinSeqOfValues(_, _)
MinSeqOfValues(s, acc) ==
    IF s = <<>> THEN acc
    ELSE IF Len(s) = 1 THEN s[1]
    ELSE Min2(s[1], MinSeqOfValues(Tail(s), acc))

RECURSIVE MinSeq(_, _)
MinSeq(s, acc) == IF s = <<>> THEN acc ELSE MinSeq(Tail(s), Min2(acc, s[1]))

\* A plausible slip: the maximum taken from the last value only.
MaxSeqOfLast(s, acc) == IF s = <<>> THEN acc ELSE Max2(acc, s[Len(s)])

RECURSIVE MaxSeq(_, _)
MaxSeq(s, acc) == IF s = <<>> THEN acc ELSE MaxSeq(Tail(s), Max2(acc, s[1]))

\* calculateMacro(actualKey, goalKey) over daysWithData
calculateMacro(daysWithData, actualKey, goalKey) ==
    LET values  == Field(daysWithData, actualKey)
        goals   == Field(daysWithData, goalKey)
        n       == IF Len(values) = 0 THEN 1 ELSE Len(values)
        total   == SumSeq(values)
        goalSum == SumSeq(goals)
    IN  [average |-> RoundDiv(total, n),
         min |-> MinSeq(values, 0),
         max |-> MaxSeq(values, 0),
         total |-> total,
         goalAverage |-> RoundDiv(goalSum, n),
         \* (average / goalAverage) * 100 with goalAverage > 0
         adherencePercent |-> IF goalSum > 0 THEN RoundDiv(100 * total, goalSum) ELSE 0]

calculateNutritionBreakdown(days) ==
    LET daysWithData == SelectSeq(days, HasData)
        waterValues  == Field(daysWithData, "water_intake_ml")
        n            == IF Len(waterValues) = 0 THEN 1 ELSE Len(waterValues)
        waterTotal   == SumSeq(waterValues)
    IN  [calories |-> calculateMacro(daysWithData, "calories_actual", "calories_goal"),
         protein  |-> calculateMacro(daysWithData, "protein_actual", "protein_goal"),
         carbs    |-> calculateMacro(daysWithData, "carbs_actual", "carbs_goal"),
         fat      |-> calculateMacro(daysWithData, "fat_actual", "fat_goal"),
         water    |-> [average |-> RoundDiv(waterTotal, n),
                       min |-> MinSeq(waterValues, 0),
                       max |-> MaxSeq(waterValues, 0),
                       total |-> waterTotal,
                       dailyGoal |-> 2000,
                       adherencePercent |-> RoundDiv(100 * waterTotal, 2000 * n)]]

----------------------------------------------------------------------------
(* calculateMacroTrends *)

AllStable ==
    [caloriesTrend |-> "stable", proteinTrend |-> "stable", carbsTrend |-> "stable",
     fatTrend |-> "stable", waterTrend |-> "stable", overallTrend |-> "stable"]

\* A plausible slip: the halves' totals are compared, not their means.
getTrendOfTotals(firstHalf, secondHalf, key) ==
    LET s1 == SumSeq(Field(firstHalf, key))
        s2 == SumSeq(Field(secondHalf, key))
    IN  IF 10 * (s2 - s1) > s1 THEN "increasing"
        ELSE IF 10 * (s2 - s1) < -s1 THEN "decreasing"
        ELSE "stable"

\* diff > threshold and diff < -threshold with diff = secondAvg - firstAvg and
\* threshold = firstAvg * 0.1, both sides multiplied by 10 * n1 * n2.
getTrend(firstHalf, secondHalf, key) ==
    LET s1 == SumSeq(Field(firstHalf, key))
        s2 == SumSeq(Field(secondHalf, key))
        n1 == Len(firstHalf)
        n2 == Len(secondHalf)
        diff10 == 10 * s2 * n1 - 10 * s1 * n2
        thr10  == s1 * n2
    IN  IF diff10 > thr10 THEN "increasing"
        ELSE IF diff10 < -thr10 THEN "decreasing"
        ELSE "stable"

\* calculateMacroTrends from midPoint on: the two halves are compared.
halfSplitTrends(daysWithData) ==
    LET n          == Len(daysWithData)
        midPoint   == n \div 2
        firstHalf  == SubSeq(daysWithData, 1, midPoint)
        secondHalf == SubSeq(daysWithData, midPoint + 1, n)
        g1 == Len(SelectSeq(firstHalf, GoalDay))
        g2 == Len(SelectSeq(secondHalf, GoalDay))
        n1 == Len(firstHalf)
        n2 == Len(secondHalf)
    IN  [caloriesTrend |-> getTrend(firstHalf, secondHalf, "calories_actual"),
         proteinTrend |-> getTrend(firstHalf, secondHalf, "protein_actual"),
         carbsTrend |-> getTrend(firstHalf, secondHalf, "carbs_actual"),
         fatTrend |-> getTrend(firstHalf, secondHalf, "fat_actual"),
         waterTrend |-> getTrend(firstHalf, secondHalf, "water_intake_ml"),
         \* secondHalfProgress > firstHalfProgress * 1.1, < * 0.9
         overallTrend |-> IF 10 * g2 * n1 > 11 * g1 * n2 THEN "improving"
                          ELSE IF 10 * g2 * n1 < 9 * g1 * n2 THEN "declining"
                          ELSE "stable"]

\* A plausible slip: the halves are compared from six days on.
calculateMacroTrendsFromSix(days) ==
    LET daysWithData == SelectSeq(days, HasData)
    IN  IF Len(daysWithData) < 6 THEN AllStable ELSE halfSplitTrends(daysWithData)

calculateMacroTrends(days) ==
    LET daysWithData == SelectSeq(days, HasData)
    IN  IF Len(daysWithData) < 7 THEN AllStable ELSE halfSplitTrends(daysWithData)

----------------------------------------------------------------------------
(* analyzeWeeks. averageProgress is the exact fraction [num, den], den > 0, *)
(* in lowest terms.                                                         *)

Frac(n, d) == LET g == GCD(Abs(n), d) IN [num |-> n \div g, den |-> d \div g]
FracAdd(a, b) == Frac(a.num * b.den + b.num * a.den, a.den * b.den)
FracLess(a, b) == a.num * b.den < b.num * a.den
FracRound(a) == RoundDiv(a.num, a.den)

\* Math.min(progress, 100) of one day
DayProgress(day) ==
    IF day.calories_goal > 0
    THEN Frac(Min2(100 * day.calories_actual, 100 * day.calories_goal),
              day.calories_goal)
    ELSE Frac(0, 1)

RECURSIVE SumProgress(_)
SumProgress(s) ==
    IF s = <<>> THEN Frac(0, 1) ELSE FracAdd(DayProgress(s[1]), SumProgress(Tail(s)))

LowDay(day) == day.calories_goal > 0 /\ 10 * day.calories_actual < 7 * day.calories_goal
OverDay(day) == day.calories_goal > 0 /\ 10 * day.calories_actual > 11 * day.calories_goal

\* A text of the highlights / challenges lists: the template and its number.
Text(template, n) == [text |-> template, n |-> n]

\* A plausible slip: an else-if chain, one goal-day entry at most.
highlightsOfChain(goalDays, perfectDays) ==
    (IF goalDays >= 6 THEN <<Text("Almost perfect week!", 0)>>
     ELSE IF goalDays >= 4 THEN <<Text("days of goal achievement", goalDays)>>
     ELSE <<>>)
    \o (IF perfectDays >= 3 THEN <<Text("perfect days", perfectDays)>> ELSE <<>>)

\* The three pushes onto highlights, each under its own if.
highlightsOf(goalDays, perfectDays) ==
    (IF goalDays >= 6 THEN <<Text("Almost perfect week!", 0)>> ELSE <<>>)
    \o (IF goalDays >= 4 THEN <<Text("days of goal achievement", goalDays)>> ELSE <<>>)
    \o (IF perfectDays >= 3 THEN <<Text("perfect days", perfectDays)>> ELSE <<>>)

WeekOf(weekDays) ==
    LET daysWithData == SelectSeq(weekDays, HasData)
        goalDays     == Len(SelectSeq(weekDays, GoalDay))
        perfectDays  == Len(SelectSeq(weekDays, PerfectDay))
        sum          == SumProgress(weekDays)
        lowDays      == Len(SelectSeq(weekDays, LowDay))
        overDays     == Len(SelectSeq(weekDays, OverDay))
    IN  [weekStart |-> weekDays[1].date,
         weekEnd |-> weekDays[Len(weekDays)].date,
         averageProgress |-> Frac(sum.num, sum.den * Len(weekDays)),
         totalDays |-> Len(weekDays),
         goalDays |-> goalDays,
         highlights |-> highlightsOf(goalDays, perfectDays),
         challenges |->
           (IF lowDays >= 2 THEN <<Text("days below 70% of goal", lowDays)>> ELSE <<>>)
           \o (IF overDays >= 2 THEN <<Text("days of overeating", overDays)>> ELSE <<>>),
         averageCalories |-> RoundedMean(daysWithData, "calories_actual"),
         averageProtein |-> RoundedMean(daysWithData, "protein_actual"),
         averageCarbs |-> RoundedMean(daysWithData, "carbs_actual"),
         averageFat |-> RoundedMean(daysWithData, "fat_actual"),
         averageWater |-> RoundedMean(daysWithData, "water_intake_ml"),
         perfectDays |-> perfectDays]

\* A plausible slip: a window takes the days i to i + 7, one day too many.
RECURSIVE WeeksFromInclusive(_, _)
WeeksFromInclusive(days, i) ==
    IF i > Len(days) THEN <<>>
    ELSE LET weekDays == SubSeq(days, i, Min2(i + 7, Len(days)))
         IN  (IF Len(SelectSeq(weekDays, HasData)) = 0 THEN <<>>
              ELSE <<WeekOf(weekDays)>>) \o WeeksFromInclusive(days, i + 7)

\* The loop over i = 0, 7, 14, ...: windows without a day with data are skipped.
RECURSIVE WeeksFrom(_, _)
WeeksFrom(days, i) ==
    IF i > Len(days) THEN <<>>
    ELSE LET weekDays == SubSeq(days, i, Min2(i + 6, Len(days)))
         IN  (IF Len(SelectSeq(weekDays, HasData)) = 0 THEN <<>>
              ELSE <<WeekOf(weekDays)>>) \o WeeksFrom(days, i + 7)

\* A plausible slip: >= for >, so the last of several equal windows is kept.
RECURSIVE BestOfLast(_, _)
BestOfLast(weeks, best) ==
    IF weeks = <<>> THEN best
    ELSE BestOfLast(Tail(weeks),
                    IF ~FracLess(weeks[1].averageProgress, best.averageProgress)
                    THEN weeks[1] ELSE best)

\* weeks.reduce((best, current) => current > best ? current : best)
RECURSIVE BestOf(_, _)
BestOf(weeks, best) ==
    IF weeks = <<>> THEN best
    ELSE BestOf(Tail(weeks),
                IF FracLess(best.averageProgress, weeks[1].averageProgress)
                THEN weeks[1] ELSE best)

RECURSIVE WorstOf(_, _)
WorstOf(weeks, worst) ==
    IF weeks = <<>> THEN worst
    ELSE WorstOf(Tail(weeks),
                 IF FracLess(weeks[1].averageProgress, worst.averageProgress)
                 THEN weeks[1] ELSE worst)

\* `${weekStart} to ${weekEnd} (${Math.round(averageProgress)}% avg)`
WeekLabel(week) ==
    [text |-> "to", weekStart |-> week.weekStart, weekEnd |-> week.weekEnd,
     avg |-> FracRound(week.averageProgress)]

NoDataLabel == [text |-> "No data available"]

analyzeWeeks(days) ==
    LET weeks == WeeksFrom(days, 1)
    IN  IF Len(weeks) = 0
        THEN [bestWeek |-> NoDataLabel, challengingWeek |-> NoDataLabel,
              insights |-> [bestWeekDetails |-> <<>>, challengingWeekDetails |-> <<>>,
                            allWeeks |-> <<>>]]
        ELSE LET bestWeek  == BestOf(Tail(weeks), weeks[1])
                 worstWeek == WorstOf(Tail(weeks), weeks[1])
             IN  [bestWeek |-> WeekLabel(bestWeek),
                  challengingWeek |-> WeekLabel(worstWeek),
                  insights |-> [bestWeekDetails |-> <<bestWeek>>,
                                challengingWeekDetails |-> <<worstWeek>>,
                                allWeeks |-> weeks]]

----------------------------------------------------------------------------
(* calculatePreviousMonthStats *)

\* The day records of the previous month: no events, no quality score, and
\* meal_count counts every meal row of the day.
previousDailyData(meals, dailyGoals, waterIntakes, startDate, dflt) ==
    LET mealKeys  == KeysOf(meals, "upload_time")
        goalKeys  == KeysOf(dailyGoals, "date")
        waterKeys == KeysOf(waterIntakes, "date")
        year  == getUTCFullYear(startDate)
        month == getUTCMonth(startDate)
        daysInMonth == DaysInMonthOf(year, month)
        DayRecord(day) ==
          LET dateStr   == ISODay(DateUTC(year, month, day, 0))
              dayMeals  == PickByKey(meals, mealKeys, dateStr)
              dayGoal   == LastOf(PickByKey(dailyGoals, goalKeys, dateStr))
              dayWater  == LastOf(PickByKey(waterIntakes, waterKeys, dateStr))
              goals     == DayGoals(dayGoal, dflt)
              totals    == DayTotals(dayMeals)
              waterIntake == IF dayWater # <<>>
                             THEN NumberOr(dayWater[1].milliliters_consumed, 0)
                             ELSE 0
          IN  [date |-> dateStr,
               calories_goal |-> goals.calories,
               calories_actual |-> totals.calories,
               protein_goal |-> goals.protein,
               protein_actual |-> totals.protein,
               carbs_goal |-> goals.carbs,
               carbs_actual |-> totals.carbs,
               fat_goal |-> goals.fat,
               fat_actual |-> totals.fat,
               meal_count |-> Len(dayMeals),
               quality_score |-> 0,
               water_intake_ml |-> waterIntake,
               events |-> <<>>]
    IN  [day \in 1..daysInMonth |-> DayRecord(day)]

\* The statistics of the previous month's day records. monthlyProgress is
\* returned unrounded: the fraction [num, den].
previousStats(days, clk) ==
    LET daysWithData == SelectSeq(days, HasData)
        goalDays == Len(SelectSeq(days, GoalDay))
    IN  [monthlyProgress |-> IF Len(days) > 0 THEN Frac(100 * goalDays, Len(days))
                             ELSE Frac(0, 1),
         streakDays |-> calculateStreakDays(days, clk),
         averageCalories |-> RoundedMean(daysWithData, "calories_actual"),
         averageProtein |-> RoundedMean(daysWithData, "protein_actual"),
         averageCarbs |-> RoundedMean(daysWithData, "carbs_actual"),
         averageFat |-> RoundedMean(daysWithData, "fat_actual"),
         averageWater |-> RoundedMean(daysWithData, "water_intake_ml")]

\* dailyData is built once, then read by every statistic.
calculatePreviousMonthStats(meals, dailyGoals, waterIntakes, startDate, endDate, dflt, clk) ==
    CHOOSE prevStats \in
        {previousStats(days, clk) :
            days \in {previousDailyData(meals, dailyGoals, waterIntakes, startDate, dflt)}} :
        TRUE

----------------------------------------------------------------------------
(* comparison and generateMotivationalMessage *)

\* progressDiff is basicStats.monthlyProgress minus the unrounded previous
\* monthlyProgress: a fraction.
comparisonOf(basicStats, prevStats) ==
    [caloriesDiff |-> basicStats.averageCalories - prevStats.averageCalories,
     proteinDiff |-> basicStats.averageProtein - prevStats.averageProtein,
     carbsDiff |-> basicStats.averageCarbs - prevStats.averageCarbs,
     fatDiff |-> basicStats.averageFat - prevStats.averageFat,
     waterDiff |-> basicStats.averageWater - prevStats.averageWater,
     progressDiff |-> Frac(basicStats.monthlyProgress * prevStats.monthlyProgress.den
                             - prevStats.monthlyProgress.num,
                           prevStats.monthlyProgress.den),
     streakDiff |-> basicStats.streakDays - prevStats.streakDays]

\* A plausible slip: >= 10 for > 10.
generateMotivationalMessageFromTen(monthlyProgress, streakDays, improvementPercent) ==
    IF monthlyProgress >= 90 THEN Text("Outstanding! You're crushing your goals!", 0)
    ELSE IF monthlyProgress >= 75 THEN Text("Great job! You're doing really well!", 0)
    ELSE IF monthlyProgress >= 50 THEN Text("Good progress! Keep pushing forward!", 0)
    ELSE IF improvementPercent.num >= 10 * improvementPercent.den
         THEN Text("Nice improvement from last month!", 0)
    ELSE IF streakDays >= 3 THEN Text("day streak! Keep it going!", streakDays)
    ELSE Text("Every step counts! You've got this!", 0)

generateMotivationalMessage(monthlyProgress, streakDays, improvementPercent) ==
    IF monthlyProgress >= 90 THEN Text("Outstanding! You're crushing your goals!", 0)
    ELSE IF monthlyProgress >= 75 THEN Text("Great job! You're doing really well!", 0)
    ELSE IF monthlyProgress >= 50 THEN Text("Good progress! Keep pushing forward!", 0)
    ELSE IF improvementPercent.num > 10 * improvementPercent.den
         THEN Text("Nice improvement from last month!", 0)
    ELSE IF streakDays >= 3 THEN Text("day streak! Keep it going!", streakDays)
    ELSE Text("Every step counts! You've got this!", 0)

----------------------------------------------------------------------------
(* The call's date ranges (getEnhancedStatistics, before the reads) *)

IsNaN(n) == n = <<>>

startDateOf(r) ==
    IF IsNaN(r.year) \/ IsNaN(r.month) THEN InvalidDate
    ELSE DateUTC(r.year[1], r.month[1] - 1, 1, 0)

endDateOf(r) ==
    IF IsNaN(r.year) \/ IsNaN(r.month) THEN InvalidDate
    ELSE DateUTC(r.year[1], r.month[1], 0, DAY_MS - 1)

----------------------------------------------------------------------------
(* Rows *)

Meal(date, period, cal, pro, carb, fat) ==
    [upload_time |-> date, meal_period |-> period, calories |-> cal,
     protein_g |-> pro, carbs_g |-> carb, fats_g |-> fat]

Goal(date, cal, pro, carb, fat) ==
    [date |-> date, calories |-> cal, protein_g |-> pro, carbs_g |-> carb,
     fats_g |-> fat]

Water(date, ml) == [date |-> date, milliliters_consumed |-> ml]

Event(id, date, created) ==
    [event_id |-> id, date |-> date, title |-> "event", type |-> "general",
     description |-> "", created_at |-> created]

NoSlots ==
    [currentMeals |-> <<>>, prevMeals |-> <<>>, currentDailyGoals |-> <<>>,
     prevDailyGoals |-> <<>>, currentWater |-> <<>>, prevWater |-> <<>>,
     currentEvents |-> <<>>, userBadges |-> <<>>, userProfile |-> Null]

NoStats == [none |-> TRUE]
NoLast == [year |-> 0, month |-> 0, streakDays |-> 0, today |-> 0]
NoDb == [none |-> TRUE]
NoStatus == [i \in 1..9 |-> "idle"]

\* The elements of s at the positions in S, in order.
RECURSIVE SubseqAt(_, _, _)
SubseqAt(s, S, i) ==
    IF i > Len(s) THEN <<>>
    ELSE (IF i \in S THEN <<s[i]>> ELSE <<>>) \o SubseqAt(s, S, i + 1)

----------------------------------------------------------------------------
(* The aggregation steps, applied to the rows bound in slots *)

ProcessDaily ==
    /\ pc = "process"
    /\ dailyData' = processDailyData(slots.currentMeals, slots.currentDailyGoals,
                                     slots.currentWater, slots.currentEvents,
                                     startDateOf(req), endDateOf(req),
                                     defaultGoals, clock.now)
    /\ pc' = "basic"
    /\ UNCHANGED <<req, db, clock, status, slots, reordered, today, stats, error,
                   runs, last>>

BasicStats ==
    /\ pc = "basic"
    /\ stats' = calculateBasicStats(dailyData, defaultGoals, clock)
    /\ today' = LocalDay(clock.now, clock.tz)
    /\ pc' = "done"
    /\ UNCHANGED <<req, db, clock, status, slots, reordered, dailyData, error, runs,
                   last>>

\* Midnight passes on the server.
Tick ==
    /\ clock.ticks < MaxTicks
    /\ clock' = [clock EXCEPT !.now = MkDate(clock.now.day + 1, clock.now.ms),
                              !.ticks = clock.ticks + 1]
    /\ UNCHANGED <<pc, req, db, status, slots, reordered, dailyData, today, stats,
                   error, runs, last>>

\* The same aggregation is asked for again, on the same rows.
Rerun ==
    /\ pc = "done"
    /\ runs < MaxRuns
    /\ last' = [year |-> req.year[1], month |-> req.month[1],
                streakDays |-> stats.streakDays, today |-> today]
    /\ runs' = runs + 1
    /\ pc' = "process"
    /\ UNCHANGED <<req, db, clock, status, slots, reordered, dailyData, today,
                   stats, error>>

----------------------------------------------------------------------------
(* SpecCalendar: processDailyData over every month of the sample years,    *)
(* on rows at the edges of the month, outside it, and without a date.      *)

Years == {1900, 2000, 2023, 2024, 2100}
Months == 1..12

\* first and last instant of the month, the instants just outside it, a
\* missing date, an unparseable date, and the first instant once more.
EdgeDates(y, m) ==
    << DateUTC(y, m - 1, 1, 0), DateUTC(y, m, 0, DAY_MS - 1),
       DateUTC(y, m - 1, 0, DAY_MS - 1), DateUTC(y, m, 1, 0),
       NullDate, InvalidDate, DateUTC(y, m - 1, 1, 0) >>

EdgeMeals(y, m) ==
    [i \in 1..7 |-> Meal(EdgeDates(y, m)[i], "lunch", Num(600), Num(40), Num(70), Num(20))]
EdgeGoals(y, m) ==
    [i \in 1..7 |-> Goal(EdgeDates(y, m)[i], Num(1800), Num(120), Num(200), Num(60))]
EdgeWater(y, m) == [i \in 1..7 |-> Water(EdgeDates(y, m)[i], Num(1500))]
EdgeEvents(y, m) == [i \in 1..7 |-> Event(i, EdgeDates(y, m)[i], InvalidDate)]

InitCalendar ==
    /\ pc = "process"
    /\ \E y \in Years, m \in Months, S \in SUBSET (1..7), others \in BOOLEAN :
         /\ req = [year |-> Num(y), month |-> Num(m)]
         /\ slots = [NoSlots EXCEPT
                !.currentMeals = SubseqAt(EdgeMeals(y, m), S, 1),
                !.currentDailyGoals = IF others THEN EdgeGoals(y, m) ELSE <<>>,
                !.currentWater = IF others THEN EdgeWater(y, m) ELSE <<>>,
                !.currentEvents = IF others THEN EdgeEvents(y, m) ELSE <<>>]
         /\ clock = [now |-> DateUTC(y, m - 1, 15, 12 * 60 * 60 * 1000),
                     tz |-> 0, ticks |-> MaxTicks]
    /\ db = NoDb
    /\ status = NoStatus
    /\ reordered = FALSE
    /\ dailyData = <<>>
    /\ today = 0
    /\ stats = NoStats
    /\ error = ""
    /\ runs = MaxRuns
    /\ last = NoLast

NextAggregate == ProcessDaily \/ BasicStats

SpecCalendar == InitCalendar /\ [][NextAggregate]_vars

\* The calendar's month lengths, by the Gregorian leap-year rule.
IsLeapYear(y) == (y % 4 = 0 /\ y % 100 # 0) \/ y % 400 = 0
CalendarDays(y, m) ==
    IF m = 2 THEN (IF IsLeapYear(y) THEN 29 ELSE 28)
    ELSE IF m \in {4, 6, 9, 11} THEN 30 ELSE 31

\* C1: whatever the rows, processDailyData returns one record per calendar
\* day of the month, days 1..daysInMonth in ascending order (hence pairwise
\* distinct dates, all inside the month), daysInMonth being 28, 29, 30 or 31
\* by the calendar.
C1_OneRecordPerDay ==
    pc \in {"basic", "done"} =>
      /\ Len(dailyData) = CalendarDays(req.year[1], req.month[1])
      /\ \A i \in 1..Len(dailyData) :
           dailyData[i].date = <<req.year[1], req.month[1], i>>

\* February of a leap year, with rows outside the month and rows without a
\* usable date among the input.
C1_Witness ==
    /\ pc = "basic"
    /\ req = [year |-> Num(2024), month |-> Num(2)]
    /\ Len(dailyData) = 29
    /\ Len(slots.currentMeals) = 7
    /\ dailyData[1].calories_actual = 1200
    /\ dailyData[29].calories_actual = 600

----------------------------------------------------------------------------
(* Months planned day by day: every day of the month is given a scenario   *)
(* [m, g, w] (its meal rows, its goal row, its water row), and the rows    *)
(* are those of the days in calendar order.                                 *)

Noon == 12 * 60 * 60 * 1000

\* Meal scenarios: 0 no meal; 1 a meal without numbers; 2 a meal of 2000
\* kcal / 150 g protein; 3 two meals of 900 kcal; 4 one meal of 1790 kcal;
\* 5 one of 3500 kcal; 6 one of 100 kcal; 7 a meal with a negative entry.
\* The monthly plans also use 8, a meal of 2000 kcal / 100 g protein, and 9,
\* a meal of 50 kcal / 143 g protein.
MealScens == 0..7
MealsOfDay(sc, at) ==
    CASE sc = 0 -> <<>>
      [] sc = 1 -> <<Meal(at, "SNACK", NullNum, NullNum, NullNum, NullNum)>>
      [] sc = 2 -> <<Meal(at, "Breakfast", Num(2000), Num(150), Num(250), Num(67))>>
      [] sc = 3 -> <<Meal(at, "LUNCH", Num(900), Num(60), Num(100), Num(30)),
                     Meal(at, "Dinner", Num(900), Num(60), Num(100), Num(30))>>
      [] sc = 4 -> <<Meal(at, "dinner", Num(1790), Num(100), Num(220), Num(60))>>
      [] sc = 5 -> <<Meal(at, "late_night", Num(3500), Num(300), Num(400), Num(120))>>
      [] sc = 6 -> <<Meal(at, "", Num(100), Num(5), Num(10), Num(3))>>
      [] sc = 8 -> <<Meal(at, "lunch", Num(2000), Num(100), Num(250), Num(67))>>
      [] sc = 9 -> <<Meal(at, "snack", Num(50), Num(143), Num(5), Num(1))>>
      [] OTHER  -> <<Meal(at, "lunch", Num(-8000), Num(0), Num(0), Num(0))>>

\* Goal scenarios: 0 no goal row; 1 a full row; 2 a row with empty fields.
GoalScens == 0..2
GoalsOfDay(sc, at) ==
    CASE sc = 0 -> <<>>
      [] sc = 1 -> <<Goal(at, Num(1800), Num(120), Num(200), Num(60))>>
      [] OTHER  -> <<Goal(at, Num(0), NullNum, Num(300), NullNum)>>

\* Water scenarios: 0 no row; 1 2000 ml; 2 500 ml.
WaterScens == 0..2
WaterOfDay(sc, at) ==
    CASE sc = 0 -> <<>>
      [] sc = 1 -> <<Water(at, Num(2000))>>
      [] OTHER  -> <<Water(at, Num(500))>>

Scen(mm, gg, ww) == [m |-> mm, g |-> gg, w |-> ww]

RECURSIVE PlanMeals(_, _, _, _)
PlanMeals(y, m, plan, d) ==
    IF d > Len(plan) THEN <<>>
    ELSE MealsOfDay(plan[d].m, DateUTC(y, m - 1, d, Noon)) \o PlanMeals(y, m, plan, d + 1)

RECURSIVE PlanGoals(_, _, _, _)
PlanGoals(y, m, plan, d) ==
    IF d > Len(plan) THEN <<>>
    ELSE GoalsOfDay(plan[d].g, DateUTC(y, m - 1, d, 0)) \o PlanGoals(y, m, plan, d + 1)

RECURSIVE PlanWater(_, _, _, _)
PlanWater(y, m, plan, d) ==
    IF d > Len(plan) THEN <<>>
    ELSE WaterOfDay(plan[d].w, DateUTC(y, m - 1, d, 0)) \o PlanWater(y, m, plan, d + 1)

PlanSlots(y, m, plan) ==
    [NoSlots EXCEPT !.currentMeals = PlanMeals(y, m, plan, 1),
                    !.currentDailyGoals = PlanGoals(y, m, plan, 1),
                    !.currentWater = PlanWater(y, m, plan, 1)]

----------------------------------------------------------------------------
(* SpecDaily: processDailyData and calculateBasicStats over planned months: *)
(* a base scenario on every day, any scenario on day 10, any meals on day   *)
(* 20; the call is made once the month is over.                             *)

BaseScens == {Scen(0, 0, 0), Scen(2, 0, 1), Scen(3, 1, 2), Scen(6, 2, 0)}
DailyMonths == {<<2024, 4>>, <<2023, 2>>}

InitDaily ==
    /\ pc = "process"
    /\ \E ym \in DailyMonths, base \in BaseScens, mm \in MealScens,
          gg \in GoalScens, ww \in WaterScens, m2 \in MealScens :
         LET n    == CalendarDays(ym[1], ym[2])
             plan == [d \in 1..n |->
                        IF d = 10 THEN Scen(mm, gg, ww)
                        ELSE IF d = 20 THEN Scen(m2, base.g, base.w)
                        ELSE base]
         IN  /\ req = [year |-> Num(ym[1]), month |-> Num(ym[2])]
             /\ slots = PlanSlots(ym[1], ym[2], plan)
             /\ clock = [now |-> DateUTC(ym[1], ym[2], 3, Noon), tz |-> 0,
                         ticks |-> MaxTicks]
    /\ db = NoDb
    /\ status = NoStatus
    /\ reordered = FALSE
    /\ dailyData = <<>>
    /\ today = 0
    /\ stats = NoStats
    /\ error = ""
    /\ runs = MaxRuns
    /\ last = NoLast

SpecDaily == InitDaily /\ [][NextAggregate]_vars

\* C6: every DayRecord's quality_score (in tenths) lies in [0, 10], and it
\* is 0 exactly when the day's calories_actual is 0; a day whose
\* calories_actual is not 0 scores at least 1.
C6_QualityScoreRange ==
    pc \in {"basic", "done"} =>
      \A i \in 1..Len(dailyData) :
        /\ dailyData[i].quality_score >= 0
        /\ dailyData[i].quality_score <= 100
        /\ (dailyData[i].quality_score = 0) <=> (dailyData[i].calories_actual = 0)
        /\ dailyData[i].calories_actual # 0 => dailyData[i].quality_score >= 10

\* One month holding a day scored 10, a day scored in between, a day with
\* calories scored at the floor of 1, and a day that has a meal row but no
\* calories and scores 0.
C6_Witness ==
    /\ pc = "basic"
    /\ Len(slots.currentMeals) = Len(dailyData)
    /\ dailyData[1].quality_score = 100
    /\ dailyData[2].quality_score = 100
    /\ dailyData[10].quality_score = 10 /\ dailyData[10].calories_actual < 0
    /\ dailyData[20].quality_score = 0 /\ dailyData[20].calories_actual = 0

\* C10: calculateBasicStats returns totalGoalDays <= totalDays and
\* perfectDays <= totalDays, totalDays being the number of records,
\* totalGoalDays the number of records with calories_actual >= 90% of
\* calories_goal and perfectDays the number with quality_score >= 9.
C10_CountsWithinTotalDays ==
    pc = "done" =>
      /\ stats.totalDays = Len(dailyData)
      /\ stats.totalGoalDays =
           Cardinality({i \in 1..Len(dailyData) :
              10 * dailyData[i].calories_actual >= 9 * dailyData[i].calories_goal})
      /\ stats.perfectDays =
           Cardinality({i \in 1..Len(dailyData) : dailyData[i].quality_score >= 90})
      /\ stats.totalGoalDays <= stats.totalDays
      /\ stats.perfectDays <= stats.totalDays

\* A month in which every day is a goal day and a perfect day, so that both
\* counts reach totalDays.
C10_Witness ==
    /\ pc = "done"
    /\ stats.totalDays = 30
    /\ stats.totalGoalDays = 30
    /\ stats.perfectDays = 30

----------------------------------------------------------------------------
(* SpecStreak: the aggregation of March 2024, asked for at several instants *)
(* on servers west of, at and east of UTC, and asked for again on the same  *)
(* rows while the clock moves on.                                           *)

StreakYear == 2024
StreakMonth == 3

\* Server time zones: UTC-5, UTC, UTC+2 (offsets in ms).
TimeZones == {-5 * 60 * 60 * 1000, 0, 2 * 60 * 60 * 1000}

\* The instants of the calls: 15 March 15:00, 15 March 23:00, 16 March
\* 01:30, 31 March 15:00, 10 April 12:00 and 20 February 12:00 (all UTC).
CallInstants ==
    { DateUTC(StreakYear, StreakMonth - 1, 15, 15 * 60 * 60 * 1000),
      DateUTC(StreakYear, StreakMonth - 1, 15, 23 * 60 * 60 * 1000),
      DateUTC(StreakYear, StreakMonth - 1, 16, 90 * 60 * 1000),
      DateUTC(StreakYear, StreakMonth - 1, 31, 15 * 60 * 60 * 1000),
      DateUTC(StreakYear, StreakMonth, 10, Noon),
      DateUTC(StreakYear, StreakMonth - 2, 20, Noon) }

\* Per day: nothing logged, a day that meets its goal, a day below 90%.
StreakScens == {Scen(0, 0, 0), Scen(2, 0, 1), Scen(4, 0, 0)}
EndScens == {Scen(0, 0, 0), Scen(2, 0, 1)}

InitStreak ==
    /\ pc = "process"
    /\ \E s14 \in StreakScens, s15 \in StreakScens,
          s16 \in StreakScens, s30 \in EndScens, s31 \in EndScens,
          now \in CallInstants, tz \in TimeZones :
         LET plan == [d \in 1..31 |->
                        CASE d = 14 -> s14 [] d = 15 -> s15 [] d = 16 -> s16
                          [] d = 30 -> s30 [] d = 31 -> s31
                          [] OTHER -> Scen(0, 0, 0)]
         IN  /\ slots = PlanSlots(StreakYear, StreakMonth, plan)
             /\ clock = [now |-> now, tz |-> tz, ticks |-> 0]
    /\ req = [year |-> Num(StreakYear), month |-> Num(StreakMonth)]
    /\ db = NoDb
    /\ status = NoStatus
    /\ reordered = FALSE
    /\ dailyData = <<>>
    /\ today = 0
    /\ stats = NoStats
    /\ error = ""
    /\ runs = 1
    /\ last = NoLast

NextStreak == ProcessDaily \/ BasicStats \/ Tick \/ Rerun

SpecStreak == InitStreak /\ [][NextStreak]_vars

\* The day number of the i-th record's date.
RecordDay(i) == DaysFromCivil(dailyData[i].date[1], dailyData[i].date[2],
                              dailyData[i].date[3])

\* calories_actual > 0 and calories_actual / calories_goal >= 0.9
MeetsGoal(i) ==
    /\ dailyData[i].calories_actual > 0
    /\ dailyData[i].calories_goal > 0
    /\ 10 * dailyData[i].calories_actual >= 9 * dailyData[i].calories_goal

\* The number of records i, i-1, ... that meet the goal, up to the first
\* that does not (dailyData is in calendar order).
RECURSIVE RunEndingAt(_)
RunEndingAt(i) ==
    IF i < 1 THEN 0 ELSE IF MeetsGoal(i) THEN 1 + RunEndingAt(i - 1) ELSE 0

MaxOf(S) == CHOOSE x \in S : \A z \in S : z <= x

\* The records dated not after `today' (the server's calendar day).
UpToToday == {i \in 1..Len(dailyData) : RecordDay(i) <= today}

\* C7: calculateStreakDays walks the records dated not after today, latest
\* first, and returns the number of leading records with calories_actual > 0
\* and calories_actual / calories_goal >= 0.9 up to the first that fails;
\* records dated after today are never counted; the result never exceeds
\* the number of records.
C7_StreakWalksDaysUpToToday ==
    pc = "done" =>
      /\ stats.streakDays =
           (IF UpToToday = {} THEN 0 ELSE RunEndingAt(MaxOf(UpToToday)))
      /\ stats.streakDays <= Len(dailyData)

\* The records calculateStreakDays keeps: it compares the local midnight at
\* or before each record's UTC midnight with today's local midnight, which
\* on a server west of UTC is the record's date minus one day.
KeptDays ==
    {i \in 1..Len(dailyData) :
       RecordDay(i) - (IF clock.tz < 0 THEN 1 ELSE 0) <= today}

\* C8 (as amended): the days counted in streakDays are a run of consecutive
\* goal-meeting calendar days, in reverse chronological order, that ends at
\* the latest record calculateStreakDays keeps: the month's last day once
\* the month is over, and not necessarily today.
C8_StreakEndsAtLatestKeptDay ==
    (pc = "done" /\ stats.streakDays > 0) =>
      /\ KeptDays # {}
      /\ stats.streakDays <= MaxOf(KeptDays)
      /\ \A j \in (MaxOf(KeptDays) - stats.streakDays + 1)..MaxOf(KeptDays) :
           MeetsGoal(j)

\* A streak of two days counted in April for the month of March: it ends on
\* 31 March, not today.
C8_Witness ==
    /\ pc = "done"
    /\ stats.streakDays = 2
    /\ today > RecordDay(31)
    /\ MeetsGoal(31) /\ MeetsGoal(30)

\* C8 (as claimed): the days counted in streakDays are a run of consecutive
\* goal-meeting days that ends today.
C8_StreakEndsToday ==
    (pc = "done" /\ stats.streakDays > 0) =>
      \E i \in 1..Len(dailyData) :
        /\ RecordDay(i) = today
        /\ stats.streakDays <= i
        /\ \A j \in (i - stats.streakDays + 1)..i : MeetsGoal(j)

\* The day number of the last day of the requested month.
MonthEnd == DaysFromCivil(req.year[1], req.month[1],
                          CalendarDays(req.year[1], req.month[1]))

\* C9 (as claimed): a second aggregation of the same rows for the same
\* (year, month) returns the streakDays of the first.
C9_RerunSameStreak ==
    (pc = "done" /\ last.year = req.year[1] /\ last.month = req.month[1]) =>
      stats.streakDays = last.streakDays

\* C9 (as amended): a second aggregation of the same rows for the same
\* (year, month) returns the streakDays of the first when both read the
\* same calendar day as today, or when both run on or after the last day of
\* the month.
C9_RerunSameStreakSameToday ==
    (/\ pc = "done" /\ last.year = req.year[1] /\ last.month = req.month[1]
     /\ \/ today = last.today
        \/ (today >= MonthEnd /\ last.today >= MonthEnd)) =>
      stats.streakDays = last.streakDays

\* Two runs on the same rows, the first on 31 March and the second on
\* 1 April, both returning a streak of two days.
C9_Witness ==
    /\ pc = "done"
    /\ last.year = req.year[1] /\ last.month = req.month[1]
    /\ last.today = MonthEnd
    /\ today = MonthEnd + 1
    /\ last.streakDays = 2
    /\ stats.streakDays = 2

----------------------------------------------------------------------------
(* getEnhancedStatistics: the nine reads of the fan-out                     *)

SlotNames ==
    <<"currentMeals", "prevMeals", "currentDailyGoals", "prevDailyGoals",
      "currentWater", "prevWater", "currentEvents", "userBadges", "userProfile">>

Reads == 1..Len(SlotNames)

\* A plausible slip: the year is not taken back when month = 1.
prevStartDateOfSameYear(r) ==
    IF IsNaN(r.year) \/ IsNaN(r.month) THEN InvalidDate
    ELSE LET prevMonth == IF r.month[1] = 1 THEN 12 ELSE r.month[1] - 1
         IN  DateUTC(r.year[1], prevMonth - 1, 1, 0)

\* prevMonth / prevYear and the previous month's range
prevStartDateOf(r) ==
    IF IsNaN(r.year) \/ IsNaN(r.month) THEN InvalidDate
    ELSE LET prevMonth == IF r.month[1] = 1 THEN 12 ELSE r.month[1] - 1
             prevYear  == IF r.month[1] = 1 THEN r.year[1] - 1 ELSE r.year[1]
         IN  DateUTC(prevYear, prevMonth - 1, 1, 0)

prevEndDateOf(r) ==
    IF IsNaN(r.year) \/ IsNaN(r.month) THEN InvalidDate
    ELSE LET prevMonth == IF r.month[1] = 1 THEN 12 ELSE r.month[1] - 1
             prevYear  == IF r.month[1] = 1 THEN r.year[1] - 1 ELSE r.year[1]
         IN  DateUTC(prevYear, prevMonth, 0, DAY_MS - 1)

DateLE(a, b) == a.day < b.day \/ (a.day = b.day /\ a.ms <= b.ms)

\* where: { field: { gte: lo, lte: hi } }; a row without the date never matches
InRange(d, lo, hi) == d.k = "date" /\ DateLE(lo, d) /\ DateLE(d, hi)

\* select: the row restricted to the selected fields
SelectFields(row, fields) == [f \in fields |-> row[f]]

\* findMany({ where: { field: { gte, lte } }, select }) in the table's order
RECURSIVE findMany(_, _, _, _, _)
findMany(rows, field, lo, hi, fields) ==
    IF rows = <<>> THEN <<>>
    ELSE (IF InRange(rows[1][field], lo, hi)
          THEN <<SelectFields(rows[1], fields)>> ELSE <<>>)
         \o findMany(Tail(rows), field, lo, hi, fields)

\* orderBy: { field: "asc" } (rows with equal values keep the table's order)
RECURSIVE InsertAsc(_, _, _)
InsertAsc(x, s, field) ==
    IF s = <<>> THEN <<x>>
    ELSE IF DateLE(s[1][field], x[field]) THEN <<s[1]>> \o InsertAsc(x, Tail(s), field)
    ELSE <<x>> \o s

RECURSIVE orderByAsc(_, _)
orderByAsc(s, field) ==
    IF s = <<>> THEN <<>>
    ELSE InsertAsc(s[Len(s)], orderByAsc(SubSeq(s, 1, Len(s) - 1), field), field)

RECURSIVE Reverse(_)
Reverse(s) == IF s = <<>> THEN <<>> ELSE Reverse(Tail(s)) \o <<s[1]>>

MealFields == {"upload_time", "meal_period", "calories", "protein_g", "carbs_g", "fats_g"}
PrevMealFields == {"upload_time", "calories", "protein_g", "carbs_g", "fats_g"}
GoalFields == {"date", "calories", "protein_g", "carbs_g", "fats_g"}
WaterFields == {"date", "milliliters_consumed"}
EventFields == {"event_id", "date", "title", "type", "description", "created_at"}
\* the badges query has no select: the whole row
BadgeFields == {"badge_id", "name", "description", "icon", "achieved_at", "points"}

\* new Date(Date.now() - 30 * 24 * 60 * 60 * 1000)
BadgesSince(now) == MkDate(now.day - 30, now.ms)

\* findMany({ where: { field: { gte: lo } }, select }) in the table's order
RECURSIVE findSince(_, _, _, _)
findSince(rows, field, lo, fields) ==
    IF rows = <<>> THEN <<>>
    ELSE (IF rows[1][field].k = "date" /\ DateLE(lo, rows[1][field])
          THEN <<SelectFields(rows[1], fields)>> ELSE <<>>)
         \o findSince(Tail(rows), field, lo, fields)

\* What the i-th query of the list returns when it succeeds.
ReadResult(i, tables, r, now) ==
    CASE i = 1 -> orderByAsc(findMany(tables.meal, "upload_time", startDateOf(r),
                                      endDateOf(r), MealFields), "upload_time")
      [] i = 2 -> findMany(tables.meal, "upload_time", prevStartDateOf(r),
                           prevEndDateOf(r), PrevMealFields)
      [] i = 3 -> findMany(tables.dailyGoal, "date", startDateOf(r), endDateOf(r),
                           GoalFields)
      [] i = 4 -> findMany(tables.dailyGoal, "date", prevStartDateOf(r),
                           prevEndDateOf(r), GoalFields)
      [] i = 5 -> findMany(tables.waterIntake, "date", startDateOf(r), endDateOf(r),
                           WaterFields)
      [] i = 6 -> findMany(tables.waterIntake, "date", prevStartDateOf(r),
                           prevEndDateOf(r), WaterFields)
      [] i = 7 -> findMany(tables.calendarEvent, "date", startDateOf(r),
                           endDateOf(r), EventFields)
      [] i = 8 -> LET found == Reverse(orderByAsc(
                                 findSince(tables.gamificationBadge, "achieved_at",
                                           BadgesSince(now), BadgeFields),
                                 "achieved_at"))
                  IN  SubSeq(found, 1, Min2(10, Len(found)))
      [] OTHER -> IF tables.user = <<>> THEN Null
                  ELSE [total_points |-> tables.user[1].total_points]

\* What the .catch handler of the i-th query returns.
catchValue(i) == IF i = 9 THEN Null ELSE <<>>

\* A plausible slip: a query without its .catch, whose failure rejects the
\* promise handed to Promise.all.
ReadFailedUncaught(i) == [settled |-> "rejected", value |-> <<>>]

\* How the i-th promise of the list settles when its query fails.
ReadFailed(i) == [settled |-> "fulfilled", value |-> catchValue(i)]

ReadSucceeded(i, tables, r, now) ==
    [settled |-> "fulfilled", value |-> ReadResult(i, tables, r, now)]

\* A plausible slip: results stored in the order of arrival.
BindByArrival(bound, st, i, v) ==
    LET k == Cardinality({j \in Reads : st[j] \in {"ok", "failed"}}) + 1
    IN  [bound EXCEPT ![SlotNames[k]] = v]

\* Promise.all keeps the i-th promise's value at position i, and the
\* destructuring binds position i to the i-th name.
BindSlot(bound, st, i, v) == [bound EXCEPT ![SlotNames[i]] = v]

\* A plausible slip: the queries awaited one after the other.
CanSettleInTurn(st, i) ==
    st[i] = "pending" /\ \A j \in 1..(i - 1) : st[j] # "pending"

\* All nine queries are issued before the await: each can settle on its own.
CanSettle(st, i) == st[i] = "pending"

\* A plausible slip: the caught error thrown on as it is.
ThrownMessageOfCause(cause) == cause

\* throw new Error("Failed to calculate enhanced statistics")
ThrownMessage(cause) == "Failed to calculate enhanced statistics"

\* The RangeError of toISOString() on an invalid Date
RangeErrorMessage == "Invalid time value"

----------------------------------------------------------------------------
(* getEnhancedStatistics: from the bound slots to the returned object       *)

\* userBadges.map(...): achieved_at.toISOString() is the instant itself
BadgeOf(badge) ==
    [id |-> badge.badge_id, name |-> badge.name, description |-> badge.description,
     icon |-> badge.icon, achieved_at |-> badge.achieved_at, points |-> badge.points]

\* userProfile?.total_points || 0
totalPointsOf(userProfile) ==
    IF userProfile = Null THEN 0 ELSE NumberOr(userProfile.total_points, 0)

BasicStatsFields ==
    {"monthlyProgress", "streakDays", "totalGoalDays", "totalDays", "perfectDays",
     "averageCalories", "averageProtein", "averageCarbs", "averageFat",
     "averageWater", "averageQualityScore", "averageMealCount"}

\* The returned object, from the day records and the previous month's
\* statistics.
statsObject(days, prevStats, bound, clk) ==
    LET basicStats == calculateBasicStats(days, defaultGoals, clk)
        weeklyAnalysis == analyzeWeeks(days)
        comparison == comparisonOf(basicStats, prevStats)
        rest == [nutritionBreakdown |-> calculateNutritionBreakdown(days),
                 macroTrends |-> calculateMacroTrends(days),
                 bestWeek |-> weeklyAnalysis.bestWeek,
                 challengingWeek |-> weeklyAnalysis.challengingWeek,
                 weeklyInsights |-> weeklyAnalysis.insights,
                 improvementPercent |-> FracRound(comparison.progressDiff),
                 motivationalMessage |->
                     generateMotivationalMessage(basicStats.monthlyProgress,
                                                 basicStats.streakDays,
                                                 comparison.progressDiff),
                 gamificationBadges |->
                     [i \in 1..Len(bound.userBadges) |-> BadgeOf(bound.userBadges[i])],
                 totalPoints |-> totalPointsOf(bound.userProfile),
                 comparison |-> comparison]
    IN  [f \in BasicStatsFields \cup DOMAIN rest |->
            IF f \in BasicStatsFields THEN basicStats[f] ELSE rest[f]]

\* The function after its await: dailyData and prevStats are computed once
\* from the bound slots, then the object is assembled.
enhancedStats(bound, r, clk) ==
    CHOOSE object \in
        {statsObject(days, prevStats, bound, clk) :
            days \in {processDailyData(bound.currentMeals, bound.currentDailyGoals,
                                       bound.currentWater, bound.currentEvents,
                                       startDateOf(r), endDateOf(r), defaultGoals,
                                       clk.now)},
            prevStats \in {calculatePreviousMonthStats(
                               bound.prevMeals, bound.prevDailyGoals, bound.prevWater,
                               prevStartDateOf(r), prevEndDateOf(r), defaultGoals, clk)}} :
        TRUE

----------------------------------------------------------------------------
(* getEnhancedStatistics: the call                                          *)

\* The call up to its await: the date ranges are logged (toISOString throws
\* on an invalid Date; the catch block rethrows), then the nine queries are
\* issued.
Start ==
    /\ pc = "idle"
    /\ runs < MaxRuns
    /\ runs' = runs + 1
    /\ IF startDateOf(req).k = "invalid"
       THEN /\ pc' = "thrown"
            /\ error' = ThrownMessage(RangeErrorMessage)
            /\ UNCHANGED status
       ELSE /\ pc' = "fetching"
            /\ status' = [i \in Reads |-> "pending"]
            /\ UNCHANGED error
    /\ UNCHANGED <<req, db, clock, slots, reordered, dailyData, today, stats, last>>

\* The i-th query settles: it succeeds, or it fails and its .catch handler
\* supplies the value. A rejected element rejects Promise.all: the await
\* throws into the catch block.
Settle(i, ok) ==
    /\ pc = "fetching"
    /\ CanSettle(status, i)
    /\ LET p == IF ok THEN ReadSucceeded(i, db, req, clock.now) ELSE ReadFailed(i)
       IN  IF p.settled = "rejected"
           THEN /\ pc' = "thrown"
                /\ error' = ThrownMessage("read failed")
                /\ UNCHANGED slots
           ELSE /\ slots' = BindSlot(slots, status, i, p.value)
                /\ UNCHANGED <<pc, error>>
    /\ status' = [status EXCEPT ![i] = IF ok THEN "ok" ELSE "failed"]
    /\ reordered' = (reordered \/ \E j \in Reads : j > i /\ status[j] # "pending")
    /\ UNCHANGED <<req, db, clock, dailyData, today, stats, runs, last>>

ReadOk == \E i \in Reads : Settle(i, TRUE)
ReadFails == \E i \in Reads : Settle(i, FALSE)

\* Promise.all is fulfilled: the rest of the function runs to its return.
Resume ==
    /\ pc = "fetching"
    /\ \A i \in Reads : status[i] \in {"ok", "failed"}
    /\ dailyData' = processDailyData(slots.currentMeals, slots.currentDailyGoals,
                                     slots.currentWater, slots.currentEvents,
                                     startDateOf(req), endDateOf(req),
                                     defaultGoals, clock.now)
    /\ today' = LocalDay(clock.now, clock.tz)
    /\ stats' = enhancedStats(slots, req, clock)
    /\ pc' = "returned"
    /\ UNCHANGED <<req, db, clock, status, slots, reordered, error, runs, last>>

----------------------------------------------------------------------------
(* Spec: one call of getEnhancedStatistics on a populated database; every   *)
(* read may succeed or fail, and the reads settle in any order.             *)

At(y, m, d, ms) == DateUTC(y, m - 1, d, ms)

Badge(id, achieved, pts) ==
    [badge_id |-> id, name |-> "badge", description |-> "", icon |-> "star",
     achieved_at |-> achieved, points |-> pts]

\* Rows in and around March, February and January 2024 and December 2023,
\* on the first and the last millisecond of the months; the meal table is
\* not in upload order.
SampleDb ==
    [meal |->
        <<Meal(At(2024, 3, 15, Noon), "dinner", Num(2000), Num(150), Num(250), Num(67)),
          Meal(At(2024, 3, 14, Noon), "Breakfast", Num(1900), Num(140), Num(240), Num(60)),
          Meal(At(2024, 3, 31, DAY_MS - 1), "lunch", Num(2000), Num(150), Num(250), Num(67)),
          Meal(At(2024, 4, 1, 0), "lunch", Num(700), Num(50), Num(50), Num(20)),
          Meal(At(2024, 3, 1, 0), "snack", Num(1790), Num(100), Num(220), Num(60)),
          Meal(At(2024, 2, 29, DAY_MS - 1), "dinner", Num(2000), Num(150), Num(250), Num(67)),
          Meal(At(2024, 2, 1, 0), "lunch", Num(900), Num(60), Num(100), Num(30)),
          Meal(At(2024, 1, 31, Noon), "lunch", Num(2100), Num(160), Num(260), Num(70)),
          Meal(At(2024, 1, 1, 0), "breakfast", Num(1000), Num(70), Num(120), Num(35)),
          Meal(At(2023, 12, 31, DAY_MS - 1), "dinner", Num(1850), Num(130), Num(230), Num(60)),
          Meal(At(2023, 11, 30, DAY_MS - 1), "dinner", Num(500), Num(30), Num(60), Num(20))>>
        \o PlanMeals(2024, 3, [d \in 1..9 |-> IF d \in 3..6 THEN Scen(2, 0, 0)
                                                ELSE IF d \in 7..9 THEN Scen(4, 0, 0)
                                                ELSE Scen(0, 0, 0)], 1),
     dailyGoal |->
        <<Goal(At(2024, 3, 15, 0), Num(1800), Num(120), Num(200), Num(60)),
          Goal(At(2024, 2, 29, 0), Num(2200), Num(160), Num(260), Num(70)),
          Goal(At(2024, 1, 31, 0), Num(2300), NullNum, Num(0), Num(70)),
          Goal(At(2023, 12, 31, 0), Num(1800), Num(120), Num(200), Num(60))>>,
     waterIntake |->
        <<Water(At(2024, 3, 15, 0), Num(2000)),
          Water(At(2024, 3, 14, 0), Num(500)),
          Water(At(2024, 2, 29, 0), Num(1500)),
          Water(At(2024, 1, 31, 0), Num(2500)),
          Water(At(2023, 12, 31, 0), NullNum)>>,
     calendarEvent |->
        <<Event(1, At(2024, 3, 15, 0), At(2024, 3, 1, Noon)),
          Event(2, At(2024, 1, 1, 0), InvalidDate),
          Event(3, At(2024, 4, 1, 0), At(2024, 3, 1, Noon))>>,
     gamificationBadge |->
        <<Badge(1, At(2024, 3, 10, Noon), 50),
          Badge(2, At(2024, 1, 2, Noon), 20),
          Badge(3, At(2024, 3, 14, Noon), 10)>>,
     user |-> <<[user_id |-> "u1", total_points |-> Num(120)]>>]

\* The calls: March 2024, January 2024 (whose previous month is December
\* 2023), and calls whose year or month is not a number.
Requests ==
    {[year |-> Num(2024), month |-> Num(3)], [year |-> Num(2024), month |-> Num(1)],
     [year |-> NullNum, month |-> Num(3)], [year |-> Num(2024), month |-> NullNum]}

Init ==
    /\ pc = "idle"
    /\ req \in Requests
    /\ db = SampleDb
    /\ clock = [now |-> At(2024, 3, 15, 18 * 60 * 60 * 1000), tz |-> 0, ticks |-> 0]
    /\ status = NoStatus
    /\ slots = NoSlots
    /\ reordered = FALSE
    /\ dailyData = <<>>
    /\ today = 0
    /\ stats = NoStats
    /\ error = ""
    /\ runs = 0
    /\ last = NoLast

Next == Start \/ ReadOk \/ ReadFails \/ Resume

Spec == Init /\ [][Next]_vars

\* The steps of Start, Settle and Resume, told by their guards and by what
\* they do to pc and status.
Started == pc = "idle" /\ runs < MaxRuns /\ pc' \in {"fetching", "thrown"}

HasSettled(i) ==
    /\ pc = "fetching"
    /\ CanSettle(status, i)
    /\ status' \in {[status EXCEPT ![i] = "ok"], [status EXCEPT ![i] = "failed"]}

Resumed ==
    /\ pc = "fetching"
    /\ \A i \in Reads : status[i] \in {"ok", "failed"}
    /\ pc' = "returned"

\* The event loop runs the call and the continuation of its await, and every
\* query but the first of the list is answered or fails in the end; the
\* first one may stay without an answer for ever.
FairSpec ==
    /\ Spec
    /\ WF_pc(Started)
    /\ \A i \in Reads \ {1} : WF_status(HasSettled(i))
    /\ WF_pc(Resumed)

----------------------------------------------------------------------------
(* Properties of the fan-out *)

Settled(i) == status[i] \in {"ok", "failed"}
AllSettled == \A i \in Reads : Settled(i)

\* The value the i-th slot is to hold once its read has settled.
OwnResult(i) ==
    IF status[i] = "failed" THEN (IF i = 9 THEN Null ELSE <<>>)
    ELSE ReadResult(i, db, req, clock.now)

EnhancedStatsFields ==
    {"monthlyProgress", "streakDays", "totalGoalDays", "totalDays", "perfectDays",
     "averageCalories", "averageProtein", "averageCarbs", "averageFat",
     "averageWater", "averageQualityScore", "averageMealCount",
     "nutritionBreakdown", "macroTrends", "bestWeek", "challengingWeek",
     "weeklyInsights", "improvementPercent", "motivationalMessage",
     "gamificationBadges", "totalPoints", "comparison"}

\* C2: whichever of the nine reads fail, each failed read is replaced by an
\* empty list (null for the user lookup), every other read keeps its own
\* result, and the call returns a statistics object instead of throwing:
\* once the reads are issued it never throws, and it returns only when all
\* nine have settled.
C2_FailedReadsReplaced ==
    /\ \A i \in Reads : Settled(i) => slots[SlotNames[i]] = OwnResult(i)
    /\ (pc = "thrown" => status = NoStatus)
    /\ (pc = "returned" => AllSettled /\ DOMAIN stats = EnhancedStatsFields)

\* The call of March 2024 returned although the reads of the current meals,
\* the events and the user failed; the other reads kept their rows.
C2_Witness ==
    /\ pc = "returned"
    /\ req.month = Num(3)
    /\ {i \in Reads : status[i] = "failed"} = {1, 7, 9}
    /\ slots.currentMeals = <<>> /\ slots.currentEvents = <<>>
    /\ slots.userProfile = Null
    /\ Len(slots.prevMeals) = 2 /\ Len(slots.currentWater) = 2
    /\ Len(slots.userBadges) = 2
    /\ stats.totalDays = 31 /\ stats.totalPoints = 0
    /\ Len(stats.gamificationBadges) = 2

\* C3: a call ends in one of two ways: it returns an object with every
\* field set (the twelve basic statistics, nutritionBreakdown, macroTrends,
\* bestWeek, challengingWeek, weeklyInsights, improvementPercent,
\* motivationalMessage, gamificationBadges, totalPoints, comparison) and no
\* error, or it throws the error "Failed to calculate enhanced statistics"
\* and returns nothing; before it ends there is neither an object nor an
\* error.
C3_TwoOutcomes ==
    /\ pc = "returned" =>
          /\ error = ""
          /\ DOMAIN stats = EnhancedStatsFields
          /\ DOMAIN stats.nutritionBreakdown = {"calories", "protein", "carbs", "fat", "water"}
          /\ DOMAIN stats.macroTrends = DOMAIN AllStable
          /\ DOMAIN stats.weeklyInsights = {"bestWeekDetails", "challengingWeekDetails", "allWeeks"}
          /\ DOMAIN stats.comparison = {"caloriesDiff", "proteinDiff", "carbsDiff", "fatDiff",
                                        "waterDiff", "progressDiff", "streakDiff"}
          /\ stats.improvementPercent \in Int /\ stats.totalPoints \in Int
    /\ pc = "thrown" =>
          /\ stats = NoStats
          /\ error = "Failed to calculate enhanced statistics"
    /\ pc \notin {"returned", "thrown"} => (stats = NoStats /\ error = "")

\* A call whose month is not a number has thrown the generic error.
C3_Witness ==
    /\ pc = "thrown"
    /\ IsNaN(req.month)
    /\ error = "Failed to calculate enhanced statistics"
    /\ stats = NoStats

\* The slots as they are bound when the reads settle one after the other in
\* list order with the outcomes of status.
RECURSIVE InListOrder(_, _)
InListOrder(bound, i) ==
    IF i > Len(SlotNames) THEN bound
    ELSE InListOrder(BindSlot(bound, [j \in Reads |-> IF j < i THEN status[j] ELSE "pending"],
                              i, OwnResult(i)), i + 1)

\* C4: in whatever order the reads complete or fail, each writes only its
\* own slot: the slot of a settled read holds that read's result, the slot
\* of a read still pending is untouched, and the returned statistics are
\* those computed from the slots bound in list order.
C4_EachReadOwnSlot ==
    /\ \A i \in Reads :
          slots[SlotNames[i]] = IF Settled(i) THEN OwnResult(i) ELSE NoSlots[SlotNames[i]]
    /\ pc = "returned" =>
          /\ slots = InListOrder(NoSlots, 1)
          /\ stats = enhancedStats(InListOrder(NoSlots, 1), req, clock)

\* The call returned after its reads settled out of list order, one of them
\* failing, and every slot of a successful read holds rows.
C4_Witness ==
    /\ pc = "returned"
    /\ reordered
    /\ req.month = Num(3)
    /\ {i \in Reads : status[i] = "failed"} = {4}
    /\ \A i \in Reads \ {4, 9} : Len(slots[SlotNames[i]]) > 0
    /\ slots.userProfile # Null
    /\ stats.totalPoints = 120

\* C5: a read that is slow or fails neither blocks nor aborts the others.
\* While the call waits, no step makes it throw, no step changes the
\* outcome or the slot of a read that has settled, and a read that fails
\* leaves its slot empty (null for the user); once the reads are issued,
\* all but the first settle in the end even if the first one never does;
\* and unless the first read stays pending for ever, the call returns.
C5_NoReadBlocksOthers ==
    /\ [][pc = "fetching" =>
            /\ pc' # "thrown"
            /\ \A i \in Reads :
                  /\ Settled(i) => (status'[i] = status[i]
                                     /\ slots'[SlotNames[i]] = slots[SlotNames[i]])
                  /\ status'[i] = "failed" => slots'[SlotNames[i]] = catchValue(i)]_vars
    /\ (pc = "fetching") ~> (\A i \in Reads \ {1} : Settled(i))
    /\ (<>[](status[1] = "pending")) \/ ((pc = "fetching") ~> (pc = "returned"))

\* The read of the current meals is still pending while the eight others
\* have settled, the read of the previous water rows having failed.
C5_Witness ==
    /\ pc = "fetching"
    /\ status[1] = "pending"
    /\ {i \in Reads : status[i] = "failed"} = {6}
    /\ {i \in Reads : status[i] = "ok"} = Reads \ {1, 6}
    /\ slots.prevWater = <<>>
    /\ slots.currentMeals = <<>>
    /\ Len(slots.prevMeals) > 0 /\ Len(slots.currentDailyGoals) > 0

----------------------------------------------------------------------------
(* SpecPermute: calculateNutritionBreakdown on a short list of day records  *)
(* in calendar order, whose records are then swapped into every order.      *)

MaxDays == 3

\* A day record as processDailyData pushes it, for the default goals.
DayData(day, calories, protein, water) ==
    [date |-> <<2024, 4, day>>,
     calories_goal |-> defaultGoals.calories, calories_actual |-> calories,
     protein_goal |-> defaultGoals.protein, protein_actual |-> protein,
     carbs_goal |-> defaultGoals.carbs, carbs_actual |-> calories \div 8,
     fat_goal |-> defaultGoals.fat, fat_actual |-> calories \div 30,
     meal_count |-> IF calories = 0 THEN 0 ELSE 1,
     quality_score |->
         calculateQualityScore([calories |-> calories, protein |-> protein,
                                carbs |-> calories \div 8, fat |-> calories \div 30],
                               defaultGoals, water),
     water_intake_ml |-> water,
     events |-> <<>>]

\* Kinds of day: nothing eaten, on goal, far over goal, a small snack, a
\* negative entry.
DayKinds == 1..5
DayOfKind(kind, day) ==
    CASE kind = 1 -> DayData(day, 0, 0, 1000)
      [] kind = 2 -> DayData(day, 2000, 150, 2000)
      [] kind = 3 -> DayData(day, 3500, 301, 0)
      [] kind = 4 -> DayData(day, 101, 5, 2500)
      [] OTHER    -> DayData(day, -301, 20, 500)

InitPermute ==
    /\ pc = "nutrition"
    /\ \E n \in 0..MaxDays : \E kinds \in [1..n -> DayKinds] :
          dailyData = [i \in 1..n |-> DayOfKind(kinds[i], i)]
    /\ req = [year |-> Num(2024), month |-> Num(4)]
    /\ db = NoDb
    /\ clock = [now |-> DateUTC(2024, 4, 10, Noon), tz |-> 0, ticks |-> 0]
    /\ status = NoStatus
    /\ slots = NoSlots
    /\ reordered = FALSE
    /\ today = 0
    /\ stats = NoStats
    /\ error = ""
    /\ runs = 1
    /\ last = NoLast

Nutrition ==
    /\ pc = "nutrition"
    /\ stats' = calculateNutritionBreakdown(dailyData)
    /\ pc' = "done"
    /\ UNCHANGED <<req, db, clock, status, slots, reordered, dailyData, today,
                   error, runs, last>>

\* The same records in another order: two neighbours change places.
Swap ==
    /\ pc = "done"
    /\ \E i \in 1..(Len(dailyData) - 1) :
          dailyData' = [dailyData EXCEPT ![i] = dailyData[i + 1],
                                         ![i + 1] = dailyData[i]]
    /\ UNCHANGED <<pc, req, db, clock, status, slots, reordered, today, stats,
                   error, runs, last>>

NextPermute == Nutrition \/ Swap

SpecPermute == InitPermute /\ [][NextPermute]_vars

Macros == {"calories", "protein", "carbs", "fat", "water"}
OrderFreeFields == {"average", "min", "max", "total", "adherencePercent"}

\* C11: calculateNutritionBreakdown gives the same average, min, max, total
\* and adherencePercent of calories, protein, carbs, fat and water for a
\* list of day records and for every permutation of it: the breakdown of
\* the calendar-ordered list (stats) equals that of the list in its present
\* order.
C11_BreakdownOrderFree ==
    pc = "done" =>
      \A macro \in Macros : \A f \in OrderFreeFields :
          calculateNutritionBreakdown(dailyData)[macro][f] = stats[macro][f]

\* Three days with data, all different, now in reverse calendar order.
C11_Witness ==
    /\ pc = "done"
    /\ Len(dailyData) = 3
    /\ dailyData[1].date[3] = 3 /\ dailyData[2].date[3] = 2 /\ dailyData[3].date[3] = 1
    /\ dailyData[1].calories_actual = 2000
    /\ dailyData[2].calories_actual = 3500
    /\ dailyData[3].calories_actual = 101
    /\ stats.calories.max = 3500 /\ stats.calories.total = 5601
    /\ stats.water.average = 1500

----------------------------------------------------------------------------
(* SpecMonth: the function after its await, on a planned April 2024 and the *)
(* same plan in March 2024: a block of days of one kind from day 1, a block *)
(* of another kind from the third week, the other days empty; the meal rows *)
(* may all lack their upload_time.                                          *)

\* Kinds of day: on goal (2000 kcal, 150 g, 2 l); on a goal row (1800 kcal)
\* with 0.5 l; on a goal row with 2 l; far over goal; 100 kcal under a goal
\* row with calories 0; a meal without numbers; calories on goal with 100 g
\* protein; 50 kcal under a goal row with calories 0.
MonthKinds ==
    {Scen(2, 0, 1), Scen(3, 1, 2), Scen(3, 1, 1), Scen(5, 0, 0), Scen(6, 2, 0),
     Scen(1, 0, 1), Scen(8, 0, 1), Scen(9, 2, 1)}

\* A block that would pass the end of the month stops there.
BlockLengths == {0, 3, 4, 16}

\* The plan of a month of n days.
MonthPlan(n, a, nA, b, nB) ==
    LET bStart == IF nA > 14 THEN nA + 1 ELSE 15
    IN  [d \in 1..n |->
            IF d <= nA THEN a
            ELSE IF d >= bStart /\ d < bStart + nB THEN b
            ELSE Scen(0, 0, 0)]

\* Meal rows whose upload_time is null.
WithoutUploadTime(meals) ==
    [i \in 1..Len(meals) |-> [meals[i] EXCEPT !.upload_time = NullDate]]

MonthSlots(a, nA, b, nB, noTime) ==
    LET cur  == PlanSlots(2024, 4, MonthPlan(30, a, nA, b, nB))
        prev == PlanSlots(2024, 3, MonthPlan(31, a, nA, b, nB))
    IN  [cur EXCEPT
           !.currentMeals = IF noTime THEN WithoutUploadTime(@) ELSE @,
           !.prevMeals = IF noTime THEN WithoutUploadTime(prev.currentMeals)
                         ELSE prev.currentMeals,
           !.prevDailyGoals = prev.currentDailyGoals,
           !.prevWater = prev.currentWater]

\* The calls are made on 30 April at noon UTC, or on 10 May.
MonthClocks ==
    {[now |-> DateUTC(2024, 3, 30, Noon), tz |-> 0, ticks |-> 0],
     [now |-> DateUTC(2024, 3, 30, Noon), tz |-> -5 * 60 * 60 * 1000, ticks |-> 0],
     [now |-> DateUTC(2024, 4, 10, Noon), tz |-> 2 * 60 * 60 * 1000, ticks |-> 0]}

InitMonth ==
    /\ pc = "fetching"
    /\ req = [year |-> Num(2024), month |-> Num(4)]
    /\ \E a \in MonthKinds, b \in MonthKinds, nA \in BlockLengths,
          nB \in BlockLengths, noTime \in BOOLEAN :
          slots = MonthSlots(a, nA, b, nB, noTime)
    /\ clock \in MonthClocks
    /\ status = [i \in Reads |-> "ok"]
    /\ db = NoDb
    /\ reordered = FALSE
    /\ dailyData = <<>>
    /\ today = 0
    /\ stats = NoStats
    /\ error = ""
    /\ runs = 1
    /\ last = NoLast

NextMonth == Resume

SpecMonth == InitMonth /\ [][NextMonth]_vars

\* The number of days with calories_actual > 0.
DaysWithCalories ==
    Cardinality({i \in DOMAIN dailyData : dailyData[i].calories_actual > 0})

\* Days 1-3 on goal (2000 kcal) and days 15-17 far over goal (3500 kcal).
ThreeThenOver ==
    /\ \A d \in 1..3 : dailyData[d].calories_actual = 2000
    /\ \A d \in 15..17 : dailyData[d].calories_actual = 3500

\* C12: calculateMacroTrends returns "stable" for all six trend fields
\* whenever fewer than 7 days have calories_actual > 0, whatever the values
\* of those days; with exactly 7 such days the halves are compared: three
\* days of 2000 kcal followed by four of 3500 kcal give an increasing
\* calories trend.
C12_StableBelowSevenDays ==
    pc = "returned" =>
      /\ DaysWithCalories < 7 => stats.macroTrends = AllStable
      /\ (DaysWithCalories = 7 /\ ThreeThenOver /\ dailyData[18].calories_actual = 3500)
            => stats.macroTrends.caloriesTrend = "increasing"

\* Six days with data whose halves differ by 75 %: all stable.
C12_Witness ==
    /\ pc = "returned"
    /\ DaysWithCalories = 6
    /\ ThreeThenOver
    /\ stats.macroTrends = AllStable

\* The day records of a window, by their dates.
WindowDays(week) ==
    {i \in DOMAIN dailyData :
        dailyData[i].date[3] >= week.weekStart[3] /\ dailyData[i].date[3] <= week.weekEnd[3]}

\* C13: analyzeWeeks emits no window whose days all have calories_actual = 0,
\* and when it emits at least one window the averageProgress of
\* bestWeekDetails is not below that of challengingWeekDetails.
C13_NoEmptyWindowBestNotBelowWorst ==
    pc = "returned" =>
      LET insights == stats.weeklyInsights
      IN  /\ \A k \in DOMAIN insights.allWeeks :
                \E i \in WindowDays(insights.allWeeks[k]) :
                    dailyData[i].calories_actual # 0
          /\ insights.allWeeks # <<>> =>
                ~FracLess(insights.bestWeekDetails[1].averageProgress,
                          insights.challengingWeekDetails[1].averageProgress)

\* Data in the first and third window only: two windows are emitted, the
\* window of days 8-14 is not, and the best one is strictly above the other.
C13_Witness ==
    /\ pc = "returned"
    /\ \A d \in 8..14 : dailyData[d].calories_actual = 0
    /\ Len(stats.weeklyInsights.allWeeks) = 2
    /\ stats.weeklyInsights.allWeeks[2].weekStart = <<2024, 4, 15>>
    /\ FracLess(stats.weeklyInsights.challengingWeekDetails[1].averageProgress,
                stats.weeklyInsights.bestWeekDetails[1].averageProgress)

\* Every day of the 30-day month has calories_actual equal to calories_goal
\* and 2000 ml of water.
OnGoalMonth ==
    /\ Len(dailyData) = 30
    /\ \A i \in DOMAIN dailyData :
          /\ dailyData[i].calories_actual = dailyData[i].calories_goal
          /\ dailyData[i].water_intake_ml = 2000

ProteinOnGoal ==
    \A i \in DOMAIN dailyData : dailyData[i].protein_actual = dailyData[i].protein_goal

AllScoresTen == \A i \in DOMAIN dailyData : dailyData[i].quality_score = 100

FullMonthFigures ==
    /\ stats.monthlyProgress = 100
    /\ stats.streakDays = 30
    /\ stats.averageWater = 2000
    /\ stats.nutritionBreakdown.water.adherencePercent = 100

\* C14 as stated: in a 30-day month in which every day has calories_actual
\* equal to calories_goal and water 2000, asked for on or after day 30,
\* every quality_score is 10, monthlyProgress is 100, streakDays is 30,
\* averageWater is 2000 and the water adherencePercent is 100.
C14_OnGoalMonthAllTen ==
    (pc = "returned" /\ OnGoalMonth) => (AllScoresTen /\ FullMonthFigures)

\* C14: in such a month monthlyProgress is 100, streakDays is 30,
\* averageWater is 2000 and the water adherencePercent is 100; every
\* quality_score is 10 when, in addition, protein_actual equals protein_goal
\* on every day.
C14_OnGoalMonthProteinOnGoal ==
    (pc = "returned" /\ OnGoalMonth) =>
        /\ FullMonthFigures
        /\ ProteinOnGoal => AllScoresTen

\* Sixteen days on the default goals and fourteen on a goal row of 1800 kcal.
C14_Witness ==
    /\ pc = "returned"
    /\ OnGoalMonth
    /\ ProteinOnGoal
    /\ dailyData[1].calories_goal = 2000
    /\ dailyData[30].calories_goal = 1800
    /\ AllScoresTen
    /\ FullMonthFigures

\* Every meal row read for the month lacks its upload_time.
NoMealHasTime ==
    \A i \in DOMAIN slots.currentMeals : slots.currentMeals[i].upload_time = NullDate

Averages ==
    {"averageCalories", "averageProtein", "averageCarbs", "averageFat",
     "averageWater", "averageQualityScore", "averageMealCount"}

\* No day has data: calories_actual is 0 on every day, every average is 0
\* and every macro trend is "stable"; the call has returned.
NothingEaten ==
    /\ pc = "returned" /\ error = ""
    /\ \A i \in DOMAIN dailyData : dailyData[i].calories_actual = 0
    /\ \A f \in Averages : stats[f] = 0
    /\ \A macro \in Macros : stats.nutritionBreakdown[macro].average = 0
    /\ stats.macroTrends = AllStable

\* C15: when every meal row has upload_time = null, with any goal and water
\* rows, every day record has calories_actual = 0, no day has data, all
\* averages are 0, monthlyProgress is 0, all macro trends are "stable" and
\* no exception is raised.
C15_NoMealTimeAllZero ==
    (pc = "returned" /\ NoMealHasTime) => (NothingEaten /\ stats.monthlyProgress = 0)

\* Meal rows without upload_time, goal rows (one block with calories 0) and
\* water rows.
C15_Witness ==
    /\ pc = "returned"
    /\ Len(slots.currentMeals) >= 7
    /\ NoMealHasTime
    /\ Len(slots.currentDailyGoals) >= 7
    /\ slots.currentDailyGoals[1].calories = Num(0)
    /\ Len(slots.currentWater) >= 7
    /\ NothingEaten
    /\ stats.monthlyProgress = 0

----------------------------------------------------------------------------
(* SpecRanges: the call up to its reads, for every month of the sample      *)
(* years: the two date ranges.                                              *)

RangeYears == {1900, 1999, 2000, 2001, 2023, 2024, 2025, 2026, 2100, 2400}

InitRanges ==
    /\ pc = "idle"
    /\ \E y \in RangeYears, m \in Months : req = [year |-> Num(y), month |-> Num(m)]
    /\ db = NoDb
    /\ clock = [now |-> DateUTC(2024, 2, 15, Noon), tz |-> 0, ticks |-> 0]
    /\ status = NoStatus
    /\ slots = NoSlots
    /\ reordered = FALSE
    /\ dailyData = <<>>
    /\ today = 0
    /\ stats = NoStats
    /\ error = ""
    /\ runs = 0
    /\ last = NoLast

NextRanges == Start

SpecRanges == InitRanges /\ [][NextRanges]_vars

\* The range [lo, hi] is the whole month m of year y: from day 1 at
\* 00:00:00.000 to the last day at 23:59:59.999.
WholeMonth(lo, hi, y, m) ==
    /\ lo.k = "date" /\ hi.k = "date"
    /\ ISODay(lo) = <<y, m, 1>> /\ lo.ms = 0
    /\ ISODay(hi) = <<y, m, CalendarDays(y, m)>> /\ hi.ms = DAY_MS - 1
    /\ hi.day - lo.day + 1 = CalendarDays(y, m)

ZeroGoalDays ==
    {i \in DOMAIN dailyData :
        /\ dailyData[i].calories_actual = 50
        /\ \E k \in DOMAIN slots.currentDailyGoals :
              /\ ISODay(slots.currentDailyGoals[k].date) = dailyData[i].date
              /\ slots.currentDailyGoals[k].calories = Num(0)}

\* The zero-goal days are not among the counted goal days.
ZeroGoalDaysNotCounted ==
    stats.totalGoalDays =
        Cardinality({i \in DOMAIN dailyData \ ZeroGoalDays :
                        10 * dailyData[i].calories_actual >= 9 * dailyData[i].calories_goal})

\* The quality score of a day record if its calories term were 0.
ScoreWithoutCaloriesTerm(day) ==
    calculateQualityScore([calories |-> day.calories_actual, protein |-> day.protein_actual],
                          [calories |-> 0, protein |-> day.protein_goal],
                          day.water_intake_ml)

\* C17 as stated: for a day with calories_goal = 0 and calories_actual = 50
\* the calories term of the quality score is 0, and the day does not count
\* toward goalDays.
C17_ZeroGoalTermZero ==
    pc = "returned" =>
      /\ \A i \in ZeroGoalDays :
            dailyData[i].quality_score = ScoreWithoutCaloriesTerm(dailyData[i])
      /\ ZeroGoalDaysNotCounted

\* C17: for a day whose goal row has calories = 0 and whose meals total
\* 50 kcal the day record has the default calories_goal 2000, the calories
\* term of the quality score is 50 / 2000 (with 143 g of protein against
\* 150 g and 2000 ml of water the score is 8.0, where a term of 0 would give
\* 7.9), and the day does not count toward goalDays.
C17_ZeroGoalFallsBackToDefault ==
    pc = "returned" =>
      /\ \A i \in ZeroGoalDays :
            /\ dailyData[i].calories_goal = defaultGoals.calories
            /\ dailyData[i].quality_score = 80
            /\ ScoreWithoutCaloriesTerm(dailyData[i]) = 79
      /\ ZeroGoalDaysNotCounted

\* Three such days at the start of the month, four days on goal later on.
C17_Witness ==
    /\ pc = "returned"
    /\ ZeroGoalDays = 1..3
    /\ dailyData[1].calories_goal = 2000
    /\ dailyData[1].quality_score = 80
    /\ stats.totalGoalDays = 4

----------------------------------------------------------------------------
(* SpecMessage: generateMotivationalMessage on the three figures it is      *)
(* called with: monthlyProgress, streakDays and comparison.progressDiff.    *)

MaxStreak == 4

\* Percentages around the three thresholds.
Progresses == {0, 49, 50, 74, 75, 89, 90, 100}

\* Differences around 10: -100, 0, 10, 10.1 (= 42 - 31.9), 320/31, 11, 100.
ProgressDiffs ==
    {Frac(-100, 1), Frac(0, 1), Frac(10, 1), Frac(101, 10), Frac(320, 31),
     Frac(11, 1), Frac(100, 1)}

InitMessage ==
    /\ pc = "message"
    /\ \E mp \in Progresses, sd \in 0..MaxStreak, diff \in ProgressDiffs :
          stats = [monthlyProgress |-> mp, streakDays |-> sd,
                   comparison |-> [progressDiff |-> diff]]
    /\ req = [year |-> Num(2024), month |-> Num(4)]
    /\ db = NoDb
    /\ clock = [now |-> DateUTC(2024, 3, 30, Noon), tz |-> 0, ticks |-> 0]
    /\ status = NoStatus
    /\ slots = NoSlots
    /\ reordered = FALSE
    /\ dailyData = <<>>
    /\ today = 0
    /\ error = ""
    /\ runs = 1
    /\ last = NoLast

Message ==
    /\ pc = "message"
    /\ stats' = [f \in DOMAIN stats \cup {"motivationalMessage"} |->
                    IF f = "motivationalMessage"
                    THEN generateMotivationalMessage(stats.monthlyProgress,
                                                     stats.streakDays,
                                                     stats.comparison.progressDiff)
                    ELSE stats[f]]
    /\ pc' = "done"
    /\ UNCHANGED <<req, db, clock, status, slots, reordered, dailyData, today,
                   error, runs, last>>

NextMessage == Message

SpecMessage == InitMessage /\ [][NextMessage]_vars

\* progressDiff > 10
DiffAboveTen == stats.comparison.progressDiff.num > 10 * stats.comparison.progressDiff.den

\* C18: generateMotivationalMessage is a cascade in which the first matching
\* rule wins: monthlyProgress >= 90 gives "Outstanding", else >= 75 "Great
\* job", else >= 50 "Good progress", else progressDiff > 10 "Nice
\* improvement", else streakDays >= 3 the "{n} day streak" message, else the
\* generic encouragement; progressDiff and streakDays have no effect when
\* monthlyProgress >= 50.
C18_MessageCascade ==
    pc = "done" =>
      LET mp  == stats.monthlyProgress
          msg == stats.motivationalMessage
      IN  /\ mp >= 90 => msg = Text("Outstanding! You're crushing your goals!", 0)
          /\ (mp >= 75 /\ mp < 90) => msg = Text("Great job! You're doing really well!", 0)
          /\ (mp >= 50 /\ mp < 75) => msg = Text("Good progress! Keep pushing forward!", 0)
          /\ (mp < 50 /\ DiffAboveTen) => msg = Text("Nice improvement from last month!", 0)
          /\ (mp < 50 /\ ~DiffAboveTen /\ stats.streakDays >= 3)
                => msg = Text("day streak! Keep it going!", stats.streakDays)
          /\ (mp < 50 /\ ~DiffAboveTen /\ stats.streakDays < 3)
                => msg = Text("Every step counts! You've got this!", 0)

\* Progress 49 with a difference of exactly 10 and a streak of 3 days: the
\* streak message.
C18_Witness ==
    /\ pc = "done"
    /\ stats.monthlyProgress = 49
    /\ stats.comparison.progressDiff = Frac(10, 1)
    /\ stats.streakDays = 3
    /\ stats.motivationalMessage = Text("day streak! Keep it going!", 3)

\* calculatePreviousMonthStats on the previous month's rows, as the call
\* makes it.
PreviousMonthStats ==
    calculatePreviousMonthStats(slots.prevMeals, slots.prevDailyGoals, slots.prevWater,
                                prevStartDateOf(req), prevEndDateOf(req),
                                defaultGoals, clock)

\* processDailyData followed by calculateBasicStats on the same rows and the
\* same month.
PreviousMonthBasicStats ==
    CHOOSE basicStats \in
        {calculateBasicStats(days, defaultGoals, clock) :
            days \in {processDailyData(slots.prevMeals, slots.prevDailyGoals,
                                       slots.prevWater, <<>>, prevStartDateOf(req),
                                       prevEndDateOf(req), defaultGoals, clock.now)}} :
        TRUE

SameAverages(prevStats, basicStats) ==
    \A f \in {"averageCalories", "averageProtein", "averageCarbs", "averageFat",
              "averageWater"} : prevStats[f] = basicStats[f]

\* C19: calculatePreviousMonthStats returns the same monthlyProgress,
\* streakDays and average calories, protein, carbs, fat and water that
\* processDailyData followed by calculateBasicStats returns for those rows
\* and that month, and each comparison diff is the current value minus that
\* previous value.
C19_PreviousSameAsAggregate ==
    pc = "returned" =>
      /\ PreviousMonthStats.monthlyProgress = Frac(PreviousMonthBasicStats.monthlyProgress, 1)
      /\ PreviousMonthStats.streakDays = PreviousMonthBasicStats.streakDays
      /\ SameAverages(PreviousMonthStats, PreviousMonthBasicStats)
      /\ stats.comparison.caloriesDiff
            = stats.averageCalories - PreviousMonthBasicStats.averageCalories
      /\ stats.comparison.proteinDiff
            = stats.averageProtein - PreviousMonthBasicStats.averageProtein
      /\ stats.comparison.carbsDiff = stats.averageCarbs - PreviousMonthBasicStats.averageCarbs
      /\ stats.comparison.fatDiff = stats.averageFat - PreviousMonthBasicStats.averageFat
      /\ stats.comparison.waterDiff = stats.averageWater - PreviousMonthBasicStats.averageWater
      /\ stats.comparison.progressDiff
            = Frac(stats.monthlyProgress - PreviousMonthBasicStats.monthlyProgress, 1)
      /\ stats.comparison.streakDiff = stats.streakDays - PreviousMonthBasicStats.streakDays

----------------------------------------------------------------------------
(* SpecScore: calculateQualityScore on the totals, goals and water of one   *)
(* day, goals of 0 included.                                                *)

ScoreCalories == {-301, 0, 50, 101, 1800, 2000, 3000, 3500}
ScoreCaloriesGoals == {0, 1800, 2000}
ScoreProteins == {0, 100, 143, 150, 200}
ScoreProteinGoals == {0, 120, 150}
ScoreWaters == {0, 500, 1999, 2000, 2500}

InitScore ==
    /\ pc = "score"
    /\ \E cal \in ScoreCalories, cg \in ScoreCaloriesGoals, pro \in ScoreProteins,
          pg \in ScoreProteinGoals, w \in ScoreWaters :
          dailyData = <<[date |-> <<2024, 4, 1>>,
                         calories_goal |-> cg, calories_actual |-> cal,
                         protein_goal |-> pg, protein_actual |-> pro,
                         carbs_goal |-> defaultGoals.carbs, carbs_actual |-> 0,
                         fat_goal |-> defaultGoals.fat, fat_actual |-> 0,
                         meal_count |-> 1, quality_score |-> 0,
                         water_intake_ml |-> w, events |-> <<>>]>>
    /\ req = [year |-> Num(2024), month |-> Num(4)]
    /\ db = NoDb
    /\ clock = [now |-> DateUTC(2024, 3, 30, Noon), tz |-> 0, ticks |-> 0]
    /\ status = NoStatus
    /\ slots = NoSlots
    /\ reordered = FALSE
    /\ today = 0
    /\ stats = NoStats
    /\ error = ""
    /\ runs = 1
    /\ last = NoLast

Score ==
    /\ pc = "score"
    /\ dailyData' =
          [i \in DOMAIN dailyData |->
              [dailyData[i] EXCEPT !.quality_score =
                  calculateQualityScore(
                      [calories |-> dailyData[i].calories_actual,
                       protein |-> dailyData[i].protein_actual,
                       carbs |-> dailyData[i].carbs_actual,
                       fat |-> dailyData[i].fat_actual],
                      [calories |-> dailyData[i].calories_goal,
                       protein |-> dailyData[i].protein_goal,
                       carbs |-> dailyData[i].carbs_goal,
                       fat |-> dailyData[i].fat_goal],
                      dailyData[i].water_intake_ml)]]
    /\ pc' = "done"
    /\ UNCHANGED <<req, db, clock, status, slots, reordered, today, stats, error,
                   runs, last>>

NextScore == Score

SpecScore == InitScore /\ [][NextScore]_vars

\* Fractions: the smaller of two, |1 - a|, and a * n / d.
FracMin(a, b) == IF FracLess(b, a) THEN b ELSE a
FracOff(a) == Frac(Abs(a.den - a.num), a.den)
FracTimes(a, n, d) == Frac(a.num * n, a.den * d)

\* min(10, round1(max(1, 10 - penalty))) in tenths, from the three ratios.
StatedScore(day) ==
    LET c == IF day.calories_goal = 0 THEN Frac(0, 1)
             ELSE FracMin(Frac(day.calories_actual, day.calories_goal), Frac(3, 2))
        p == IF day.protein_goal = 0 THEN Frac(0, 1)
             ELSE FracMin(Frac(day.protein_actual, day.protein_goal), Frac(6, 5))
        w == FracMin(Frac(day.water_intake_ml, 2000), Frac(1, 1))
        penalty == FracAdd(FracAdd(FracTimes(FracOff(c), 2, 1), FracTimes(FracOff(p), 3, 2)),
                           FracOff(w))
        rest == Frac(10 * penalty.den - penalty.num, penalty.den)
        final == IF FracLess(rest, Frac(1, 1)) THEN Frac(1, 1) ELSE rest
    IN  Min2(100, FracRound(FracTimes(final, 10, 1)))

\* C20: for every day with calories_actual different from 0,
\* calculateQualityScore returns min(10, round1(max(1, 10 - penalty))) with
\* penalty = |1 - c| * 2 + |1 - p| * 1.5 + |1 - w| * 1.0, c = min(calories /
\* goal, 1.5) (0 if the goal is 0), p = min(protein / goal, 1.2) (0 if the
\* goal is 0) and w = min(water / 2000, 1.0); the result lies in [1, 10] and
\* is a multiple of 0.1 (scores are kept in tenths).
C20_ScoreFormula ==
    pc = "done" =>
      \A i \in DOMAIN dailyData :
          dailyData[i].calories_actual # 0 =>
              /\ dailyData[i].quality_score = StatedScore(dailyData[i])
              /\ dailyData[i].quality_score \in 10..100

\* 3500 kcal against 2000 (capped at 1.5), 100 g of protein against 150 and
\* 500 ml of water: 10 - 1 - 0.5 - 0.75 = 7.75, rounded to 7.8.
C20_Witness ==
    /\ pc = "done"
    /\ dailyData[1].calories_actual = 3500 /\ dailyData[1].calories_goal = 2000
    /\ dailyData[1].protein_actual = 100 /\ dailyData[1].protein_goal = 150
    /\ dailyData[1].water_intake_ml = 500
    /\ dailyData[1].quality_score = 78
    /\ StatedScore(dailyData[1]) = 78

WithCalories(day) == day.calories_actual > 0

\* The mean of a field over the records lo..hi of the days with data
\* (calendar order), as a fraction.
HalfMean(key, lo, hi) ==
    LET data == SelectSeq(dailyData, WithCalories)
    IN  Frac(SumSeq([i \in 1..(hi - lo + 1) |-> data[lo + i - 1][key]]), hi - lo + 1)

FracSub(a, b) == Frac(a.num * b.den - b.num * a.den, a.den * b.den)

\* The stated classification of one field.
StatedTrend(key) ==
    LET n          == DaysWithCalories
        firstMean  == HalfMean(key, 1, n \div 2)
        secondMean == HalfMean(key, n \div 2 + 1, n)
        diff       == FracSub(secondMean, firstMean)
        tenth      == FracTimes(firstMean, 1, 10)
    IN  IF FracLess(tenth, diff) THEN "increasing"
        ELSE IF FracLess(diff, FracTimes(tenth, -1, 1)) THEN "decreasing"
        ELSE "stable"

\* C21: with at least 7 day records with calories_actual > 0,
\* calculateMacroTrends splits them, in calendar order, into a first half of
\* floor(n/2) records and a second half of the others, and for calories,
\* protein, carbs, fat and water returns "increasing" iff secondMean -
\* firstMean > 0.1 * firstMean, "decreasing" iff it is < -0.1 * firstMean,
\* and "stable" otherwise.
C21_TrendOfHalfMeans ==
    (pc = "returned" /\ DaysWithCalories >= 7) =>
        /\ stats.macroTrends.caloriesTrend = StatedTrend("calories_actual")
        /\ stats.macroTrends.proteinTrend = StatedTrend("protein_actual")
        /\ stats.macroTrends.carbsTrend = StatedTrend("carbs_actual")
        /\ stats.macroTrends.fatTrend = StatedTrend("fat_actual")
        /\ stats.macroTrends.waterTrend = StatedTrend("water_intake_ml")

\* Seven days with data: three of 3500 kcal without water, then four of
\* 2000 kcal with 2000 ml: calories decrease, and water, whose first mean is
\* 0, increases.
C21_Witness ==
    /\ pc = "returned"
    /\ DaysWithCalories = 7
    /\ HalfMean("water_intake_ml", 1, 3) = Frac(0, 1)
    /\ HalfMean("water_intake_ml", 4, 7) = Frac(2000, 1)
    /\ stats.macroTrends.waterTrend = "increasing"
    /\ stats.macroTrends.caloriesTrend = "decreasing"

----------------------------------------------------------------------------
(* SpecDropped: processDailyData on any choice of the edge rows of January  *)
(* 1970 and of February 2024, rows without a usable date among them.        *)

DroppedMonths == {<<1970, 1>>, <<2024, 2>>}

InitDropped ==
    /\ pc = "process"
    /\ \E ym \in DroppedMonths, S \in SUBSET (1..7), T \in SUBSET {1, 5, 6} :
         /\ req = [year |-> Num(ym[1]), month |-> Num(ym[2])]
         /\ slots = [NoSlots EXCEPT
                !.currentMeals = SubseqAt(EdgeMeals(ym[1], ym[2]), S, 1),
                !.currentDailyGoals = SubseqAt(EdgeGoals(ym[1], ym[2]), T, 1),
                !.currentWater = SubseqAt(EdgeWater(ym[1], ym[2]), T, 1),
                !.currentEvents = SubseqAt(EdgeEvents(ym[1], ym[2]), T, 1)]
         /\ clock = [now |-> DateUTC(ym[1], ym[2], 3, Noon), tz |-> 0,
                     ticks |-> MaxTicks]
    /\ db = NoDb
    /\ status = NoStatus
    /\ reordered = FALSE
    /\ dailyData = <<>>
    /\ today = 0
    /\ stats = NoStats
    /\ error = ""
    /\ runs = MaxRuns
    /\ last = NoLast

SpecDropped == InitDropped /\ [][NextAggregate]_vars

\* The rows whose date is missing or does not parse.
Undated(rows, field) == {i \in DOMAIN rows : rows[i][field].k # "date"}

\* The list without its i-th row.
WithoutRow(rows, i) == SubSeq(rows, 1, i - 1) \o SubSeq(rows, i + 1, Len(rows))

\* processDailyData on the rows read, one table replaced.
DailyDataOf(meals, dailyGoals, waterIntakes, events) ==
    processDailyData(meals, dailyGoals, waterIntakes, events, startDateOf(req),
                     endDateOf(req), defaultGoals, clock.now)

\* C22: in processDailyData a meal, goal, water or event row whose date
\* field is missing or does not parse is dropped without raising: the day
\* records returned are exactly those returned for the same input with that
\* row removed.
C22_UndatedRowsDropped ==
    pc = "basic" =>
      /\ \A i \in Undated(slots.currentMeals, "upload_time") :
            dailyData = DailyDataOf(WithoutRow(slots.currentMeals, i),
                                    slots.currentDailyGoals, slots.currentWater,
                                    slots.currentEvents)
      /\ \A i \in Undated(slots.currentDailyGoals, "date") :
            dailyData = DailyDataOf(slots.currentMeals,
                                    WithoutRow(slots.currentDailyGoals, i),
                                    slots.currentWater, slots.currentEvents)
      /\ \A i \in Undated(slots.currentWater, "date") :
            dailyData = DailyDataOf(slots.currentMeals, slots.currentDailyGoals,
                                    WithoutRow(slots.currentWater, i),
                                    slots.currentEvents)
      /\ \A i \in Undated(slots.currentEvents, "date") :
            dailyData = DailyDataOf(slots.currentMeals, slots.currentDailyGoals,
                                    slots.currentWater,
                                    WithoutRow(slots.currentEvents, i))

\* January 1970: a meal row without a date and one with an unparseable date
\* next to a meal on day 1, and such rows in the other three tables.
C22_Witness ==
    /\ pc = "basic"
    /\ req = [year |-> Num(1970), month |-> Num(1)]
    /\ Len(slots.currentMeals) = 3
    /\ Undated(slots.currentMeals, "upload_time") = {2, 3}
    /\ Undated(slots.currentDailyGoals, "date") = {2, 3}
    /\ Undated(slots.currentWater, "date") = {2, 3}
    /\ Undated(slots.currentEvents, "date") = {2, 3}
    /\ dailyData[1].calories_actual = 600
    /\ dailyData[1].calories_goal = 1800
    /\ Len(dailyData[1].events) = 1

----------------------------------------------------------------------------
\* The goal rows read for a day, by index.
GoalRowsOn(date) ==
    {i \in DOMAIN slots.currentDailyGoals :
        /\ slots.currentDailyGoals[i].date.k = "date"
        /\ ISODay(slots.currentDailyGoals[i].date) = date}

\* The goal stated for one field: the row's value unless it is null or 0.
StatedGoal(v, dflt) == IF v \in {NullNum, Num(0)} THEN dflt ELSE v[1]

\* C23: each goal field of a day record falls back on its own: with a goal
\* row for the day, a field that is null or 0 takes its default (calories
\* 2000, protein 150, carbs 250, fat 67) and the other fields keep the row's
\* values; without a goal row all four fields take the defaults.
C23_GoalFieldsFallBackAlone ==
    pc \in {"basic", "done", "returned"} =>
      \A d \in DOMAIN dailyData :
        LET rows == GoalRowsOn(dailyData[d].date)
        IN  IF rows = {}
            THEN /\ dailyData[d].calories_goal = 2000
                 /\ dailyData[d].protein_goal = 150
                 /\ dailyData[d].carbs_goal = 250
                 /\ dailyData[d].fat_goal = 67
            ELSE \A i \in rows :
                   LET row == slots.currentDailyGoals[i]
                   IN  /\ dailyData[d].calories_goal = StatedGoal(row.calories, 2000)
                       /\ dailyData[d].protein_goal = StatedGoal(row.protein_g, 150)
                       /\ dailyData[d].carbs_goal = StatedGoal(row.carbs_g, 250)
                       /\ dailyData[d].fat_goal = StatedGoal(row.fats_g, 67)

\* Days 1 to 3 have a row with carbs 300 and the other fields 0 or null, days
\* 4 to 14 no row, days 15 to 18 a full row.
C23_Witness ==
    /\ pc = "returned"
    /\ \E i \in GoalRowsOn(dailyData[1].date) :
         /\ slots.currentDailyGoals[i].calories = Num(0)
         /\ slots.currentDailyGoals[i].protein_g = NullNum
         /\ slots.currentDailyGoals[i].carbs_g = Num(300)
         /\ slots.currentDailyGoals[i].fats_g = NullNum
    /\ dailyData[1].calories_goal = 2000
    /\ dailyData[1].protein_goal = 150
    /\ dailyData[1].carbs_goal = 300
    /\ dailyData[1].fat_goal = 67
    /\ GoalRowsOn(dailyData[4].date) = {}
    /\ dailyData[4].calories_goal = 2000
    /\ \E i \in GoalRowsOn(dailyData[15].date) :
         slots.currentDailyGoals[i].calories = Num(1800)
    /\ dailyData[15].calories_goal = 1800
    /\ dailyData[15].fat_goal = 60

----------------------------------------------------------------------------
\* The entries of a list of texts made from one template.
EntriesOf(texts, template) ==
    {i \in DOMAIN texts : texts[i].text = template}

\* The windows emitted for the month.
EmittedWeeks == stats.weeklyInsights.allWeeks

\* C24: the highlights of a window are independent of one another: "Almost
\* perfect week!" is present exactly when goalDays >= 6, "{goalDays} days of
\* goal achievement" exactly when goalDays >= 4 and "{perfectDays} perfect
\* days" exactly when perfectDays >= 3; a window with goalDays >= 6 carries
\* the first two, in that order.
C24_HighlightsIndependent ==
    pc = "returned" =>
      \A k \in DOMAIN EmittedWeeks :
        LET week   == EmittedWeeks[k]
            almost == EntriesOf(week.highlights, "Almost perfect week!")
            goal   == EntriesOf(week.highlights, "days of goal achievement")
            perf   == EntriesOf(week.highlights, "perfect days")
        IN  /\ Cardinality(almost) = (IF week.goalDays >= 6 THEN 1 ELSE 0)
            /\ Cardinality(goal) = (IF week.goalDays >= 4 THEN 1 ELSE 0)
            /\ Cardinality(perf) = (IF week.perfectDays >= 3 THEN 1 ELSE 0)
            /\ almost \cup goal \cup perf = DOMAIN week.highlights
            /\ \A i \in goal : week.highlights[i].n = week.goalDays
            /\ \A i \in perf : week.highlights[i].n = week.perfectDays
            /\ week.goalDays >= 6 => almost = {1} /\ goal = {2}

\* One window with all three entries and one with the goal-day entry alone.
C24_Witness ==
    /\ pc = "returned"
    /\ \E k \in DOMAIN EmittedWeeks :
         /\ EmittedWeeks[k].goalDays >= 6
         /\ Len(EmittedWeeks[k].highlights) = 3
    /\ \E k \in DOMAIN EmittedWeeks :
         /\ EmittedWeeks[k].goalDays \in {4, 5}
         /\ EmittedWeeks[k].perfectDays < 3
         /\ Len(EmittedWeeks[k].highlights) = 1

----------------------------------------------------------------------------
\* The emitted windows no other emitted window is above (below).
HighestWeeks ==
    {k \in DOMAIN EmittedWeeks :
        \A j \in DOMAIN EmittedWeeks :
            ~FracLess(EmittedWeeks[k].averageProgress, EmittedWeeks[j].averageProgress)}
LowestWeeks ==
    {k \in DOMAIN EmittedWeeks :
        \A j \in DOMAIN EmittedWeeks :
            ~FracLess(EmittedWeeks[j].averageProgress, EmittedWeeks[k].averageProgress)}

FirstIn(S) == CHOOSE k \in S : \A j \in S : k <= j

\* C25: bestWeekDetails is the first emitted window among those whose
\* averageProgress is the highest, and challengingWeekDetails the first among
\* those whose averageProgress is the lowest; when all emitted windows have
\* the same averageProgress both are the first emitted window.
C25_FirstOfEqualWindows ==
    (pc = "returned" /\ EmittedWeeks # <<>>) =>
      /\ stats.weeklyInsights.bestWeekDetails = <<EmittedWeeks[FirstIn(HighestWeeks)]>>
      /\ stats.weeklyInsights.challengingWeekDetails = <<EmittedWeeks[FirstIn(LowestWeeks)]>>
      /\ HighestWeeks = LowestWeeks =>
            /\ stats.weeklyInsights.bestWeekDetails = <<EmittedWeeks[1]>>
            /\ stats.weeklyInsights.challengingWeekDetails = <<EmittedWeeks[1]>>

\* The first two windows share the highest averageProgress and a later
\* window is below them.
C25_Witness ==
    /\ pc = "returned"
    /\ Len(EmittedWeeks) >= 3
    /\ {1, 2} \subseteq HighestWeeks
    /\ LowestWeeks \cap HighestWeeks = {}
    /\ stats.weeklyInsights.bestWeekDetails = <<EmittedWeeks[1]>>
    /\ EmittedWeeks[2] # EmittedWeeks[1]

----------------------------------------------------------------------------
\* No meal row and no goal row read for the month has a negative number.
NonNegativeOrNull(v) == v = NullNum \/ v[1] >= 0
NonNegativeRows ==
    /\ \A i \in DOMAIN slots.currentMeals :
         /\ NonNegativeOrNull(slots.currentMeals[i].calories)
         /\ NonNegativeOrNull(slots.currentMeals[i].protein_g)
         /\ NonNegativeOrNull(slots.currentMeals[i].carbs_g)
         /\ NonNegativeOrNull(slots.currentMeals[i].fats_g)
    /\ \A i \in DOMAIN slots.currentDailyGoals :
         /\ NonNegativeOrNull(slots.currentDailyGoals[i].calories)
         /\ NonNegativeOrNull(slots.currentDailyGoals[i].protein_g)
         /\ NonNegativeOrNull(slots.currentDailyGoals[i].carbs_g)
         /\ NonNegativeOrNull(slots.currentDailyGoals[i].fats_g)

\* The days of the month on which something was eaten.
DataDays == {i \in DOMAIN dailyData : dailyData[i].calories_actual > 0}

\* C26: for non-negative meal and goal values every day record has its four
\* goals strictly positive, every day counted in totalGoalDays or in
\* perfectDays has calories_actual > 0, and neither count exceeds the number
\* of days with data.
C26_CountsWithinDaysWithData ==
    (pc = "done" /\ NonNegativeRows) =>
      /\ \A i \in DOMAIN dailyData :
            /\ dailyData[i].calories_goal > 0
            /\ dailyData[i].protein_goal > 0
            /\ dailyData[i].carbs_goal > 0
            /\ dailyData[i].fat_goal > 0
            /\ 10 * dailyData[i].calories_actual >= 9 * dailyData[i].calories_goal
                  => i \in DataDays
            /\ dailyData[i].quality_score >= 90 => i \in DataDays
      /\ stats.totalGoalDays <= Cardinality(DataDays)
      /\ stats.perfectDays <= Cardinality(DataDays)

\* A goal row with calories 0 on a day without meals next to days that are
\* goal days and perfect days: the counts stay below the days with data.
C26_Witness ==
    /\ pc = "done"
    /\ NonNegativeRows
    /\ \E i \in GoalRowsOn(dailyData[10].date) :
         slots.currentDailyGoals[i].calories = Num(0)
    /\ dailyData[10].calories_actual = 0
    /\ dailyData[10].calories_goal = 2000
    /\ stats.totalGoalDays > 0
    /\ stats.perfectDays > 0
    /\ stats.totalGoalDays < Cardinality(DataDays)

----------------------------------------------------------------------------
\* The records calculateBasicStats counts in totalGoalDays.
GoalDayRecords ==
    {i \in DOMAIN dailyData :
        10 * dailyData[i].calories_actual >= 9 * dailyData[i].calories_goal}

\* The records calculateStreakDays has counted: the last streakDays of those
\* it keeps.
StreakRecords ==
    IF stats.streakDays = 0 \/ KeptDays = {} THEN {}
    ELSE (MaxOf(KeptDays) - stats.streakDays + 1)..MaxOf(KeptDays)

\* C27: for every month and every value of today streakDays is at most
\* totalGoalDays, because each day calculateStreakDays counts is also a day
\* calculateBasicStats counts as a goal day.
C27_StreakWithinGoalDays ==
    pc = "done" =>
      /\ stats.streakDays <= stats.totalGoalDays
      /\ Cardinality(StreakRecords) = stats.streakDays
      /\ StreakRecords \subseteq GoalDayRecords
      /\ stats.totalGoalDays = Cardinality(GoalDayRecords)

\* A streak of two days at the end of the month and a third goal day, cut off
\* from them, in its middle.
C27_Witness ==
    /\ pc = "done"
    /\ stats.streakDays = 2
    /\ stats.totalGoalDays = 3
    /\ StreakRecords = {30, 31}
    /\ 15 \in GoalDayRecords

----------------------------------------------------------------------------
\* The days of the month a window starts on.
WindowStarts == {1, 8, 15, 22, 29}

\* C28: for non-negative inputs the emitted windows are pairwise disjoint
\* runs of 1 to 7 consecutive days of the month that start on days 1, 8, 15,
\* 22 or 29; the goalDays of the emitted windows add up to the month's
\* totalGoalDays and their perfectDays to the month's perfectDays.
C28_WindowsPartitionCounts ==
    (pc = "returned" /\ NonNegativeRows) =>
      /\ \A k \in DOMAIN EmittedWeeks :
           LET week == EmittedWeeks[k]
           IN  /\ week.weekStart[3] \in WindowStarts
               /\ week.weekEnd[3] = Min2(week.weekStart[3] + 6, Len(dailyData))
               /\ week.totalDays = Cardinality(WindowDays(week))
               /\ week.totalDays \in 1..7
               /\ week.goalDays = Cardinality(WindowDays(week) \cap GoalDayRecords)
               /\ week.perfectDays =
                    Cardinality({i \in WindowDays(week) : dailyData[i].quality_score >= 90})
      /\ \A j, k \in DOMAIN EmittedWeeks :
           j # k => WindowDays(EmittedWeeks[j]) \cap WindowDays(EmittedWeeks[k]) = {}
      /\ SumSeq(Field(EmittedWeeks, "goalDays")) = stats.totalGoalDays
      /\ SumSeq(Field(EmittedWeeks, "perfectDays")) = stats.perfectDays

\* Goal days in the first window and in the two-day window of days 29 and
\* 30, perfect days in some window, and the window of days 8 to 14 not emitted.
C28_Witness ==
    /\ pc = "returned"
    /\ NonNegativeRows
    /\ Len(EmittedWeeks) >= 3
    /\ EmittedWeeks[Len(EmittedWeeks)].weekStart[3] = 29
    /\ EmittedWeeks[Len(EmittedWeeks)].totalDays = 2
    /\ EmittedWeeks[Len(EmittedWeeks)].goalDays = 2
    /\ EmittedWeeks[1].goalDays \in 1..6
    /\ \E k \in DOMAIN EmittedWeeks : EmittedWeeks[k].perfectDays > 0
    /\ stats.totalGoalDays > 7
    /\ Len(EmittedWeeks) < 5

----------------------------------------------------------------------------
(* SpecRepeated: processDailyData on up to MaxRows goal rows, water rows    *)
(* and meal rows of one UTC day, 5 April 2024, at different hours.          *)

MaxRows == 2

RECURSIVE SeqsUpTo(_, _)
SeqsUpTo(S, n) ==
    IF n = 0 THEN {<<>>}
    ELSE SeqsUpTo(S, n - 1) \cup {Append(s, x) : s \in SeqsUpTo(S, n - 1), x \in S}

\* The hour of the j-th row of the day.
RowInstant(j) == DateUTC(2024, 3, 5, (j * DAY_MS) \div (MaxRows + 1))

RepeatedGoals(kinds) ==
    [j \in 1..Len(kinds) |->
        CASE kinds[j] = 1 -> Goal(RowInstant(j), Num(1800), Num(120), Num(200), Num(60))
          [] kinds[j] = 2 -> Goal(RowInstant(j), Num(2200), Num(130), Num(300), Num(70))
          [] OTHER -> Goal(RowInstant(j), Num(0), NullNum, Num(300), NullNum)]

RepeatedWater(kinds) ==
    [j \in 1..Len(kinds) |-> Water(RowInstant(j), Num(500 * kinds[j]))]

RepeatedMeals(kinds) ==
    [j \in 1..Len(kinds) |->
        Meal(RowInstant(j), "lunch", Num(300 * kinds[j]), Num(20 * kinds[j]),
             Num(40 * kinds[j]), Num(10 * kinds[j]))]

InitRepeated ==
    /\ pc = "process"
    /\ req = [year |-> Num(2024), month |-> Num(4)]
    /\ \E g \in SeqsUpTo(1..3, MaxRows), w \in SeqsUpTo({1, 3}, MaxRows),
          m \in SeqsUpTo({2, 3}, MaxRows) :
         slots = [NoSlots EXCEPT !.currentDailyGoals = RepeatedGoals(g),
                                 !.currentWater = RepeatedWater(w),
                                 !.currentMeals = RepeatedMeals(m)]
    /\ clock = [now |-> DateUTC(2024, 4, 3, Noon), tz |-> 0, ticks |-> MaxTicks]
    /\ db = NoDb
    /\ status = NoStatus
    /\ reordered = FALSE
    /\ dailyData = <<>>
    /\ today = 0
    /\ stats = NoStats
    /\ error = ""
    /\ runs = MaxRuns
    /\ last = NoLast

SpecRepeated == InitRepeated /\ [][NextAggregate]_vars

\* The rows of a table read for a day, by index.
RowsOn(rows, field, date) ==
    {i \in DOMAIN rows : rows[i][field].k = "date" /\ ISODay(rows[i][field]) = date}

\* The number a row holds, 0 for none.
Held(v) == IF v = NullNum THEN 0 ELSE v[1]

\* The sum of Held(rows[i][field]) over the indices in S.
RECURSIVE SumHeld(_, _, _)
SumHeld(rows, field, S) ==
    IF S = {} THEN 0
    ELSE LET i == CHOOSE i \in S : TRUE
         IN  Held(rows[i][field]) + SumHeld(rows, field, S \ {i})

\* C29: when several goal rows or several water rows fall on the same UTC
\* day, the last of them in input order alone determines the day's goals and
\* its water_intake_ml (the water rows are not added up), whereas all meal
\* rows of the day are added up.
C29_LastGoalAndWaterRowWins ==
    pc \in {"basic", "done"} =>
      \A d \in DOMAIN dailyData :
        LET goals == RowsOn(slots.currentDailyGoals, "date", dailyData[d].date)
            water == RowsOn(slots.currentWater, "date", dailyData[d].date)
            meals == RowsOn(slots.currentMeals, "upload_time", dailyData[d].date)
        IN  /\ goals # {} =>
                 LET row == slots.currentDailyGoals[MaxOf(goals)]
                 IN  /\ dailyData[d].calories_goal = StatedGoal(row.calories, 2000)
                     /\ dailyData[d].protein_goal = StatedGoal(row.protein_g, 150)
                     /\ dailyData[d].carbs_goal = StatedGoal(row.carbs_g, 250)
                     /\ dailyData[d].fat_goal = StatedGoal(row.fats_g, 67)
            /\ water # {} =>
                 dailyData[d].water_intake_ml =
                     Held(slots.currentWater[MaxOf(water)].milliliters_consumed)
            /\ dailyData[d].calories_actual = SumHeld(slots.currentMeals, "calories", meals)
            /\ dailyData[d].protein_actual = SumHeld(slots.currentMeals, "protein_g", meals)
            /\ dailyData[d].carbs_actual = SumHeld(slots.currentMeals, "carbs_g", meals)
            /\ dailyData[d].fat_actual = SumHeld(slots.currentMeals, "fats_g", meals)

\* 5 April: a goal row of 1800 kcal then one of 2200, water rows of 1500 ml
\* then 500 ml, and meals of 600 and 900 kcal.
C29_Witness ==
    /\ pc = "basic"
    /\ RowsOn(slots.currentDailyGoals, "date", dailyData[5].date) = {1, 2}
    /\ slots.currentDailyGoals[1].calories = Num(1800)
    /\ slots.currentDailyGoals[2].calories = Num(2200)
    /\ dailyData[5].calories_goal = 2200
    /\ RowsOn(slots.currentWater, "date", dailyData[5].date) = {1, 2}
    /\ slots.currentWater[1].milliliters_consumed = Num(1500)
    /\ dailyData[5].water_intake_ml = 500
    /\ RowsOn(slots.currentMeals, "upload_time", dailyData[5].date) = {1, 2}
    /\ dailyData[5].calories_actual = 1500

----------------------------------------------------------------------------
\* The values of a field on the days with data.
DataValues(key) == {dailyData[i][key] : i \in DataDays}

\* The macros of the breakdown and the day field each is taken from.
MacroKeys ==
    [calories |-> "calories_actual", protein |-> "protein_actual",
     carbs |-> "carbs_actual", fat |-> "fat_actual", water |-> "water_intake_ml"]

\* C30: for non-negative day values calculateNutritionBreakdown reports
\* min = 0 for each of the five macros whatever the days hold, and as max the
\* largest value among the days with data, or 0 when there is none.
C30_MinZeroMaxLargest ==
    (pc = "returned" /\ NonNegativeRows) =>
      \A macro \in DOMAIN MacroKeys :
        LET values == DataValues(MacroKeys[macro])
        IN  /\ stats.nutritionBreakdown[macro].min = 0
            /\ stats.nutritionBreakdown[macro].max =
                 (IF values = {} THEN 0 ELSE MaxOf(values))

\* Every day with data has at least 1800 kcal and 500 ml of water, and the
\* reported minimum is 0 all the same; the largest day is reported as max.
C30_Witness ==
    /\ pc = "returned"
    /\ NonNegativeRows
    /\ Cardinality(DataDays) >= 7
    /\ \A i \in DataDays : dailyData[i].calories_actual >= 1800
    /\ \A i \in DataDays : dailyData[i].water_intake_ml >= 500
    /\ stats.nutritionBreakdown.calories.min = 0
    /\ stats.nutritionBreakdown.water.min = 0
    /\ stats.nutritionBreakdown.calories.max = 2000
    /\ stats.nutritionBreakdown.water.max = 2000
    /\ Cardinality(DataValues("calories_actual")) = 2

============================================================================
